---- MODULE Spec2Model ----
(***************************************************************************)
(* Model of the in-memory point-lookup path of yibit/terarkdb:             *)
(*   memtable/hash_skiplist_rep.cc  the hash-sharded skip-list index and   *)
(*                                  its iterators                          *)
(*   table/get_context.cc           the GetContext value resolver and the  *)
(*                                  row-cache replay log                   *)
(***************************************************************************)
EXTENDS Integers, Sequences, FiniteSets, TLC

VARIABLES
    buckets,    \* HashSkipListRep::buckets_ : slot -> index into lists[slot], 0 = nullptr
    lists,      \* the Buckets allocated for each slot, in allocation order
    inserted,   \* history: the entries whose Insert has returned
    it,         \* the iterator object handed out by GetIterator / GetDynamicPrefixIterator
    out,        \* what the last operation returned to its caller
    pc,                 \* where the caller of one row-cached lookup stands
    made,               \* the GetContext as its constructor left it
    get_context,        \* the GetContext of the lookup
    row_cache_context,  \* the RowCacheContext of the lookup
    row_cache,          \* the row cache's entry for the lookup's cache key
    fed,                \* history: the SaveValue calls of the lookup
    replay,             \* what GetFromRowCache left of a fresh GetContext
    writers             \* the Insert call each concurrent writer is in

idxVars == <<buckets, lists, inserted, it, out>>
resolverVars ==
    <<pc, made, get_context, row_cache_context, row_cache, fed, replay>>
vars == <<buckets, lists, inserted, it, out, pc, made, get_context,
          row_cache_context, row_cache, fed, replay, writers>>

----------------------------------------------------------------------------
(* Bounds of the model *)

\* number of Insert calls one index receives
MaxRecords == 3

\* HashSkipListRep::bucket_size_, the constructor's bucket_size
bucket_size_ == 2

\* number of records one lookup hands to SaveValue
MaxStream == 3

----------------------------------------------------------------------------
(* Keys, entries and their order (db/dbformat.h, db/memtable.cc) *)

\* a null pointer; also "no node" of a skip list
NULL == [null |-> TRUE]

Reverse(s) == [i \in 1..Len(s) |-> s[Len(s) + 1 - i]]

RECURSIVE Concat(_)
Concat(ss) == IF ss = <<>> THEN <<>> ELSE Head(ss) \o Concat(Tail(ss))

RECURSIVE SumBytes(_)
SumBytes(s) == IF s = <<>> THEN 0 ELSE Head(s) + SumBytes(Tail(s))

SeqToSet(s) == {s[i] : i \in 1..Len(s)}

\* ValueType as stored in the low byte of the packed (sequence, type)
TypeCode(t) ==
    CASE t = "kTypeDeletion" -> 0
      [] t = "kTypeValue" -> 1
      [] t = "kTypeMerge" -> 2
      [] t = "kTypeSingleDeletion" -> 7
      [] t = "kTypeRangeDeletion" -> 15
      [] t = "kTypeValueIndex" -> 16
      [] t = "kTypeMergeIndex" -> 17
      [] t = "kValueTypeForSeek" -> 127

PackSequenceAndType(seq, t) == seq * 256 + TypeCode(t)

\* bytewise order of two slices: -1, 0, 1
RECURSIVE SliceCompare(_, _)
SliceCompare(a, b) ==
    IF a = <<>> /\ b = <<>> THEN 0
    ELSE IF a = <<>> THEN -1
    ELSE IF b = <<>> THEN 1
    ELSE IF Head(a) < Head(b) THEN -1
    ELSE IF Head(a) > Head(b) THEN 1
    ELSE SliceCompare(Tail(a), Tail(b))

\* InternalKeyComparator: user key ascending, then packed (sequence, type)
\* descending
InternalKeyCompare(a, b) ==
    LET r == SliceCompare(a.user_key, b.user_key)
        pa == PackSequenceAndType(a.sequence, a.type)
        pb == PackSequenceAndType(b.sequence, b.type)
    IN  IF r # 0 THEN r
        ELSE IF pa > pb THEN -1
        ELSE IF pa < pb THEN 1
        ELSE 0

InternalKey(uk, seq, t) == [user_key |-> uk, sequence |-> seq, type |-> t]

\* a memtable entry (KeyHandle): the length-prefixed internal key followed by
\* the value
Entry(uk, seq, t, v) == [internal_key |-> InternalKey(uk, seq, t), value |-> v]

\* EncodeKey: the length-prefixed form of an internal key, an entry without
\* a value part
EncodeKey(internal_key) == [internal_key |-> internal_key, value |-> <<>>]

\* GetLengthPrefixedSlice on an entry: its internal key
GetLengthPrefixedSlice(key) == key.internal_key

ExtractUserKey(internal_key) == internal_key.user_key

\* MemTableRep::KeyComparator on two length-prefixed keys: decodes both and
\* compares the internal keys; the value part takes no part
compare_(a, b) ==
    InternalKeyCompare(GetLengthPrefixedSlice(a), GetLengthPrefixedSlice(b))

\* LookupKey(user_key, sequence): memtable_key() seeks to the newest entry of
\* user_key whose sequence is <= sequence
LookupKey(uk, seq) == InternalKey(uk, seq, "kValueTypeForSeek")

----------------------------------------------------------------------------
(* SkipList<const char*, KeyComparator> (memtable/skiplist.h): a sorted list
   of entries; a node is named by the entry it holds, NULL is "no node" *)

SkipListInsert(list, key) ==
    LET n == Cardinality({i \in 1..Len(list) : compare_(list[i], key) < 0})
    IN  SubSeq(list, 1, n) \o <<key>> \o SubSeq(list, n + 1, Len(list))

SkipListContains(list, key) ==
    \E i \in 1..Len(list) : compare_(list[i], key) = 0

\* FindGreaterOrEqual
SkipListSeek(list, target) ==
    LET ge == {i \in 1..Len(list) : compare_(list[i], target) >= 0}
    IN  IF ge = {} THEN NULL
        ELSE list[CHOOSE i \in ge : \A j \in ge : i <= j]

SkipListSeekToFirst(list) == IF list = <<>> THEN NULL ELSE list[1]

SkipListSeekToLast(list) == IF list = <<>> THEN NULL ELSE list[Len(list)]

\* node->Next(0)
SkipListNext(list, node) ==
    LET gt == {i \in 1..Len(list) : compare_(list[i], node) > 0}
    IN  IF gt = {} THEN NULL
        ELSE list[CHOOSE i \in gt : \A j \in gt : i <= j]

\* FindLessThan(node->key); the head node reads as "not valid"
SkipListPrev(list, node) ==
    LET lt == {i \in 1..Len(list) : compare_(list[i], node) < 0}
    IN  IF lt = {} THEN NULL
        ELSE list[CHOOSE i \in lt : \A j \in lt : i >= j]

----------------------------------------------------------------------------
(* HashSkipListRep *)

Slots == 0..(bucket_size_ - 1)

\* SliceTransform: the fixed-length prefix extractor (prefix of one byte)
Transform(user_key) == SubSeq(user_key, 1, IF Len(user_key) < 1 THEN Len(user_key) ELSE 1)

\* util/murmurhash.h stand-in: a deterministic hash of the bytes of a slice
RECURSIVE MurmurHash(_)
MurmurHash(slice) ==
    IF slice = <<>> THEN 0
    ELSE (MurmurHash(SubSeq(slice, 1, Len(slice) - 1)) * 31
          + slice[Len(slice)]) % 65536

GetHash(slice) == MurmurHash(slice) % bucket_size_

\* a Bucket*: NULL, or the place of a Bucket in lists
BucketPtr(slot, idx) == [slot |-> slot, idx |-> idx]

\* GetBucket(size_t i): the acquire load of slot i
GetBucketAt(bk, i) == IF bk[i] = 0 THEN NULL ELSE BucketPtr(i, bk[i])

\* GetBucket(const Slice& slice)
GetBucket(bk, slice) == GetBucketAt(bk, GetHash(slice))

Deref(ls, ptr) == ls[ptr.slot][ptr.idx]

\* GetInitializedBucket without the test for an existing bucket: every call
\* allocates and publishes a new one
GetInitializedBucketAlways(bk, ls, transformed) ==
    LET hash == GetHash(transformed)
    IN  [buckets |-> [bk EXCEPT ![hash] = Len(ls[hash]) + 1],
         lists   |-> [ls EXCEPT ![hash] = Append(@, <<>>)],
         bucket  |-> BucketPtr(hash, Len(ls[hash]) + 1)]

\* GetInitializedBucket, lines 258-269: the slot's bucket, allocated and
\* published first when the slot is empty
GetInitializedBucket(bk, ls, transformed) ==
    LET hash == GetHash(transformed)
        bucket == GetBucketAt(bk, hash)
    IN  IF bucket = NULL
        THEN [buckets |-> [bk EXCEPT ![hash] = Len(ls[hash]) + 1],
              lists   |-> [ls EXCEPT ![hash] = Append(@, <<>>)],
              bucket  |-> BucketPtr(hash, Len(ls[hash]) + 1)]
        ELSE [buckets |-> bk, lists |-> ls, bucket |-> bucket]

\* HashSkipListRep::Contains
Contains(bk, ls, internal_key) ==
    LET transformed == Transform(ExtractUserKey(internal_key))
        bucket == GetBucket(bk, transformed)
    IN  IF bucket = NULL THEN FALSE
        ELSE SkipListContains(Deref(ls, bucket), EncodeKey(internal_key))

\* Insert that picks the bucket by the hash of the whole user key, not of
\* its transformed prefix
InsertIntoByRawKey(bk, ls, key) ==
    LET internal_key == GetLengthPrefixedSlice(key)
        g == GetInitializedBucket(bk, ls, ExtractUserKey(internal_key))
    IN  [buckets |-> g.buckets,
         lists |-> [g.lists EXCEPT ![g.bucket.slot][g.bucket.idx] =
                        SkipListInsert(@, key)]]

\* HashSkipListRep::Insert, lines 271-278, as the new (buckets_, Buckets)
InsertInto(bk, ls, key) ==
    LET internal_key == GetLengthPrefixedSlice(key)
        transformed == Transform(ExtractUserKey(internal_key))
        g == GetInitializedBucket(bk, ls, transformed)
    IN  [buckets |-> g.buckets,
         lists |-> [g.lists EXCEPT ![g.bucket.slot][g.bucket.idx] =
                        SkipListInsert(@, key)]]

\* every entry reachable through buckets_
IndexEntries(bk, ls) ==
    UNION {IF bk[i] = 0 THEN {} ELSE SeqToSet(ls[i][bk[i]]) : i \in Slots}

----------------------------------------------------------------------------
(* GetContext (table/get_context.cc) and its collaborators *)

\* kMaxSequenceNumber is (1 << 56) - 1 in db/dbformat.h; sequence numbers are
\* eight bits wide here
kMaxSequenceNumber == 255

\* a pointer argument that was passed as nullptr (callback_,
\* max_covering_tombstone_seq_, seq_)
NoPtr == -1

\* the empty LazySlice: LazySlice(), and what value.reset() leaves
EmptySlice == <<>>

\* MergeContext (db/merge_context.h): operand_list in the order PushOperand
\* was called; GetOperands() hands them oldest first, and
\* GetOperandsDirectionBackward() in the order pushed
PushOperand(operand_list, value) == Append(operand_list, value)

GetOperandsDirectionBackward(operand_list) == operand_list

GetOperands(operand_list) == Reverse(operand_list)

\* The merge operator is a strategy of the caller. Two are modelled:
\*   "append": the base value followed by the operands, oldest first
\*   "sum":    the sum of the integers held by the base value and the operands
\* full_merge_ok says whether its FullMerge succeeds; should_merge_at = n > 0
\* makes ShouldMerge true once n operands are held (0: never, the default)
MergeOperator(kind, full_merge_ok, should_merge_at) ==
    [null |-> FALSE, kind |-> kind, full_merge_ok |-> full_merge_ok,
     should_merge_at |-> should_merge_at]

ShouldMerge(merge_operator, operands_backward) ==
    /\ merge_operator.should_merge_at > 0
    /\ Len(operands_backward) >= merge_operator.should_merge_at

\* the value a successful full merge produces; has_base is FALSE for "no base
\* value" (a nullptr base)
FullMerge(merge_operator, has_base, base, operands) ==
    LET all == (IF has_base THEN <<base>> ELSE <<>>) \o operands
    IN  IF merge_operator.kind = "sum"
        THEN <<SumBytes(Concat(all))>>
        ELSE Concat(all)

\* MergeHelper::TimedFullMerge (db/merge_helper.cc): the status, and the
\* contents of *result afterwards (left alone on failure)
TimedFullMerge(merge_operator, has_base, base, operands, result) ==
    IF merge_operator.full_merge_ok
    THEN [ok |-> TRUE,
          result |-> FullMerge(merge_operator, has_base, base, operands)]
    ELSE [ok |-> FALSE, result |-> result]

\* SeparateHelper::TransToCombined: the value a separated (index) value
\* stands for; here an index value holds the bytes of its target after a
\* marker byte 0
TransToCombined(user_key, seq_type, value) ==
    IF value # <<>> /\ Head(value) = 0 THEN Tail(value) ELSE value

\* LazySlice::inplace_decode: whether the value can be materialised; the
\* one-byte value 255 stands for a value whose decoding fails
InplaceDecodeOk(value) == value # <<255>>

\* GetContext::CheckCallback (table/get_context.h): callback_ == nullptr
\* accepts every sequence; a ReadCallback for snapshot s accepts seq <= s
CheckCallback(c, seq) == c.callback_ = NoPtr \/ seq <= c.callback_

\* the constructor, lines 39-70: state_ = init_state, *seq_ =
\* kMaxSequenceNumber when seq_ is given, min_seq_type_ = 0, no replay log
GetContext(merge_operator, init_state, user_key, has_lazy_val, has_value_found, has_merge_context, max_covering_tombstone_seq, has_seq, callback, trivial) ==
    [merge_operator_ |-> merge_operator,
     state_ |-> init_state,
     user_key_ |-> user_key,
     has_lazy_val |-> has_lazy_val,         \* lazy_val_ != nullptr
     lazy_val_ |-> EmptySlice,              \* *lazy_val_
     has_value_found |-> has_value_found,   \* value_found_ != nullptr
     value_found_ |-> TRUE,                 \* *value_found_
     has_merge_context |-> has_merge_context,
     merge_context_ |-> <<>>,               \* merge_context_'s operand_list
     max_covering_tombstone_seq_ |-> max_covering_tombstone_seq,
     seq_ |-> IF has_seq THEN kMaxSequenceNumber ELSE NoPtr,
     min_seq_type_ |-> 0,
     replay_log_callback_ |-> FALSE,        \* replay_log_callback_ != nullptr
     callback_ |-> callback,
     trivial_ |-> trivial]

\* RowCacheContext (table/get_context.h): status and the replay-log buffer
\* (has_buffer: buffer != nullptr), as a string of bytes
RowCacheContext == [status_ok |-> TRUE, has_buffer |-> FALSE, buffer |-> <<>>]

\* PutLengthPrefixedSlice (util/coding.h): varint32 length, then the bytes;
\* a length below 128 is one byte
PutLengthPrefixedSlice(dst, value) == dst \o <<Len(value)>> \o value

\* AddReplayLog that writes an indirect record in its direct form: the type
\* Value or Merge and the value its index value stands for
AddReplayLogDirect(context, type, value) ==
    LET status_ok == IF context.status_ok THEN InplaceDecodeOk(value)
                     ELSE FALSE
        direct == IF type = "kTypeValueIndex" THEN "kTypeValue"
                  ELSE IF type = "kTypeMergeIndex" THEN "kTypeMerge"
                  ELSE type
        v == IF type \in {"kTypeValueIndex", "kTypeMergeIndex"}
             THEN TransToCombined(<<>>, 0, value)
             ELSE value
    IN  IF ~status_ok
        THEN [context EXCEPT !.status_ok = FALSE]
        ELSE [status_ok |-> TRUE,
              has_buffer |-> TRUE,
              buffer |-> PutLengthPrefixedSlice(
                             Append(context.buffer, TypeCode(direct)), v)]

\* RowCacheContext::AddReplayLog, lines 404-422
AddReplayLog(context, type, value) ==
    LET status_ok == IF context.status_ok THEN InplaceDecodeOk(value)
                     ELSE FALSE
    IN  IF ~status_ok
        THEN [context EXCEPT !.status_ok = FALSE]
        ELSE [status_ok |-> TRUE,
              has_buffer |-> TRUE,
              buffer |-> PutLengthPrefixedSlice(
                             Append(context.buffer, TypeCode(type)), value)]

\* what one SaveValue call leaves: the context, the replay-log sink, the
\* returned flag, *matched (unset reads FALSE), and whether an assert failed
SaveValueResult(c, row, ret, matched) ==
    [c |-> c, row |-> row, ret |-> ret, matched |-> matched, abort |-> FALSE]

SaveValueAbort(c, row) ==
    [c |-> c, row |-> row, ret |-> FALSE, matched |-> FALSE, abort |-> TRUE]

\* the full merge with the base value dropped and its failure ignored
MergeIntoNoBase(c, has_base, base) ==
    IF c.has_lazy_val
    THEN [c EXCEPT !.state_ = "kFound",
                   !.lazy_val_ = FullMerge(c.merge_operator_, FALSE,
                                           EmptySlice,
                                           GetOperands(c.merge_context_))]
    ELSE [c EXCEPT !.state_ = "kFound"]

\* the full merge with its status dropped: kFound whatever it returned
MergeIntoIgnoreStatus(c, has_base, base) ==
    IF c.has_lazy_val
    THEN LET m == TimedFullMerge(c.merge_operator_, has_base, base,
                                 GetOperands(c.merge_context_), c.lazy_val_)
         IN  [c EXCEPT !.state_ = "kFound", !.lazy_val_ = m.result]
    ELSE [c EXCEPT !.state_ = "kFound"]

\* lines 207-221, 231-243 and 262-273: state_ = kFound, then the full merge
\* into *lazy_val_ when there is one, kCorrupt when it fails
MergeInto(c, has_base, base) ==
    IF c.has_lazy_val
    THEN LET m == TimedFullMerge(c.merge_operator_, has_base, base,
                                 GetOperands(c.merge_context_), c.lazy_val_)
         IN  [c EXCEPT !.state_ = IF m.ok THEN "kFound" ELSE "kCorrupt",
                       !.lazy_val_ = m.result]
    ELSE [c EXCEPT !.state_ = "kFound"]

\* case kTypeValue answering true in its kNotFound branch, so that the scan
\* goes on past the record that resolved the key
SaveValueCaseValueContinue(c, row, value) ==
    IF c.state_ = "kNotFound" /\ ~c.trivial_
    THEN SaveValueResult(
             [c EXCEPT !.state_ = "kFound",
                       !.lazy_val_ = IF c.has_lazy_val THEN value ELSE @],
             row, TRUE, TRUE)
    ELSE SaveValueAbort(c, row)

\* lines 193-221: case kTypeValue (and kTypeValueIndex after translation)
SaveValueCaseValue(c, row, value) ==
    IF ~(c.state_ \in {"kNotFound", "kMerge"}) THEN SaveValueAbort(c, row)
    ELSE IF c.trivial_
    THEN IF c.state_ # "kNotFound" \/ ~c.has_lazy_val
         THEN SaveValueAbort(c, row)
         ELSE SaveValueResult([c EXCEPT !.state_ = "kFound",
                                        !.lazy_val_ = value],
                              row, FALSE, TRUE)
    ELSE IF c.state_ = "kNotFound"
    THEN SaveValueResult(
             [c EXCEPT !.state_ = "kFound",
                       !.lazy_val_ = IF c.has_lazy_val THEN value ELSE @],
             row, FALSE, TRUE)
    ELSE IF c.merge_operator_.null THEN SaveValueAbort(c, row)
    ELSE SaveValueResult(MergeInto(c, TRUE, value), row, FALSE, TRUE)

\* lines 223-244: case kTypeDeletion, kTypeSingleDeletion, kTypeRangeDeletion
SaveValueCaseDeletion(c, row) ==
    IF ~(c.state_ \in {"kNotFound", "kMerge"}) THEN SaveValueAbort(c, row)
    ELSE IF c.state_ = "kNotFound"
    THEN SaveValueResult([c EXCEPT !.state_ = "kDeleted"], row, FALSE, TRUE)
    ELSE IF c.has_lazy_val /\ c.merge_operator_.null
    THEN SaveValueAbort(c, row)   \* TimedFullMerge asserts its operator
    ELSE SaveValueResult(MergeInto(c, FALSE, EmptySlice), row, FALSE, TRUE)

\* case kTypeMerge with PushOperand left out
SaveValueCaseMergeNoPush(c, row, value) ==
    IF ~(c.state_ \in {"kNotFound", "kMerge"}) \/ c.trivial_
    THEN SaveValueAbort(c, row)
    ELSE SaveValueResult([c EXCEPT !.state_ = "kMerge"], row, TRUE, TRUE)

\* case kTypeMerge with the assert on state_ compiled out: state_ = kMerge
\* from whatever it was
SaveValueCaseMergeUnchecked(c, row, value) ==
    LET c1 == [c EXCEPT !.state_ = "kMerge",
                        !.merge_context_ = PushOperand(@, value)]
    IN  IF /\ ~c1.merge_operator_.null
           /\ ShouldMerge(c1.merge_operator_,
                          GetOperandsDirectionBackward(c1.merge_context_))
        THEN SaveValueResult(MergeInto(c1, FALSE, EmptySlice), row, FALSE, TRUE)
        ELSE SaveValueResult(c1, row, TRUE, TRUE)

\* lines 249-275: case kTypeMerge (and kTypeMergeIndex after translation)
SaveValueCaseMerge(c, row, value) ==
    IF ~(c.state_ \in {"kNotFound", "kMerge"}) THEN SaveValueAbort(c, row)
    ELSE LET c1 == [c EXCEPT !.state_ = "kMerge"]
         IN  IF c1.trivial_
             THEN IF c1.state_ # "kNotFound" \/ ~c1.has_lazy_val
                  THEN SaveValueAbort(c1, row)
                  ELSE SaveValueResult([c1 EXCEPT !.lazy_val_ = value],
                                       row, FALSE, TRUE)
             ELSE LET c2 == [c1 EXCEPT !.merge_context_ =
                                           PushOperand(@, value)]
                  IN  IF /\ ~c2.merge_operator_.null
                         /\ ShouldMerge(c2.merge_operator_,
                                GetOperandsDirectionBackward(c2.merge_context_))
                      THEN SaveValueResult(MergeInto(c2, FALSE, EmptySlice),
                                           row, FALSE, TRUE)
                      ELSE SaveValueResult(c2, row, TRUE, TRUE)

\* the test never true: no record is taken for covered
CoveredByTombstoneNever(c, parsed_key) == FALSE

\* the test made only for the first record the lookup takes, when state_ is
\* still kNotFound
CoveredByTombstoneFirstOnly(c, parsed_key) ==
    /\ c.state_ = "kNotFound"
    /\ parsed_key.type \in {"kTypeValue", "kTypeMerge",
                            "kTypeValueIndex", "kTypeMergeIndex"}
    /\ c.max_covering_tombstone_seq_ # NoPtr
    /\ c.max_covering_tombstone_seq_ > parsed_key.sequence

\* the test made only while a replay log is attached
CoveredByTombstoneWhenLogged(c, parsed_key) ==
    /\ c.replay_log_callback_
    /\ parsed_key.type \in {"kTypeValue", "kTypeMerge",
                            "kTypeValueIndex", "kTypeMergeIndex"}
    /\ c.max_covering_tombstone_seq_ # NoPtr
    /\ c.max_covering_tombstone_seq_ > parsed_key.sequence

\* lines 178-181: the record is one a range tombstone can cover, there is a
\* covering tombstone sequence, and it is newer than the record
CoveredByTombstone(c, parsed_key) ==
    /\ parsed_key.type \in {"kTypeValue", "kTypeMerge",
                            "kTypeValueIndex", "kTypeMergeIndex"}
    /\ c.max_covering_tombstone_seq_ # NoPtr
    /\ c.max_covering_tombstone_seq_ > parsed_key.sequence

\* the masked record answered with true, as a record the callback rejects
SaveValueMaskedContinue(c, row) == SaveValueResult(c, row, TRUE, FALSE)

\* lines 161-164: the record is below min_seq_type_; return false before
\* *matched is set
SaveValueMasked(c, row) == SaveValueResult(c, row, FALSE, FALSE)

\* the rejected record not left alone: an unset *seq_ is written before the
\* callback is asked
SaveValueInvisibleSeq(c, row) ==
    SaveValueResult([c EXCEPT !.seq_ = IF @ = kMaxSequenceNumber THEN 0 ELSE @],
                    row, TRUE, TRUE)

\* lines 165-169: *matched = true, and the callback rejects the sequence;
\* return true
SaveValueInvisible(c, row) == SaveValueResult(c, row, TRUE, TRUE)

\* GetContext::SaveValue, lines 153-285. parsed_key is an internal key, row
\* the RowCacheContext that AddReplayLog writes to when a replay log is set
SaveValue(c, row, parsed_key, value) ==
    IF ~((c.state_ # "kMerge" /\ parsed_key.type # "kTypeMerge")
         \/ c.has_merge_context)
    THEN SaveValueAbort(c, row)
    ELSE IF parsed_key.user_key # c.user_key_
    THEN SaveValueResult(c, row, FALSE, FALSE)
    ELSE
    LET seq_type == PackSequenceAndType(parsed_key.sequence, parsed_key.type)
    IN  IF seq_type < c.min_seq_type_
        THEN SaveValueMasked(c, row)
        ELSE IF ~CheckCallback(c, parsed_key.sequence)
        THEN SaveValueInvisible(c, row)
        ELSE
        LET c1 == IF c.seq_ = kMaxSequenceNumber
                  THEN [c EXCEPT !.seq_ = parsed_key.sequence]
                  ELSE c
            covered == CoveredByTombstone(c, parsed_key)
            type == IF covered THEN "kTypeRangeDeletion" ELSE parsed_key.type
            v == IF covered THEN EmptySlice ELSE value
            row1 == IF c.replay_log_callback_ THEN AddReplayLog(row, type, v)
                    ELSE row
        IN  CASE type = "kTypeValueIndex" ->
                   SaveValueCaseValue(c1, row1,
                       TransToCombined(c.user_key_, seq_type, v))
              [] type = "kTypeValue" -> SaveValueCaseValue(c1, row1, v)
              [] type \in {"kTypeDeletion", "kTypeSingleDeletion",
                           "kTypeRangeDeletion"} ->
                   SaveValueCaseDeletion(c1, row1)
              [] type = "kTypeMergeIndex" ->
                   SaveValueCaseMerge(c1, row1,
                       TransToCombined(c.user_key_, seq_type, v))
              [] type = "kTypeMerge" -> SaveValueCaseMerge(c1, row1, v)
              [] OTHER -> SaveValueAbort(c1, row1)

----------------------------------------------------------------------------
(* The replay log: SetReplayLog, AddToCache, GetFromRowCache *)

\* SetReplayLog that only swaps the callback
SetReplayLogNoTombstone(c, row, on) ==
    [c |-> [c EXCEPT !.replay_log_callback_ = on], row |-> row]

\* GetContext::SetReplayLog, lines 287-299; on says whether the callback
\* handed in is non-null (it is RowCacheContext::AddReplayLog then, with row
\* as its argument). The context and the log sink afterwards
SetReplayLog(c, row, on) ==
    LET row1 == IF /\ ~on
                   /\ c.replay_log_callback_
                   /\ c.state_ \in {"kNotFound", "kMerge"}
                   /\ c.max_covering_tombstone_seq_ # NoPtr
                   /\ c.max_covering_tombstone_seq_ # 0
                THEN AddReplayLog(row, "kTypeRangeDeletion", EmptySlice)
                ELSE row
    IN  [c |-> [c EXCEPT !.replay_log_callback_ = on], row |-> row1]

\* the Cache value of a key nothing was inserted for
NoEntry == [null |-> TRUE, log |-> <<>>]

\* sizeof(std::string), line 428
kSizeofString == 32

\* AddToCache that hands back what Cache::Insert returned
AddToCacheReportingInsert(row, cache_key, cache, insert_ok) ==
    IF row.status_ok /\ row.has_buffer
    THEN [cache |-> IF insert_ok
                    THEN [null |-> FALSE, log |-> row.buffer,
                          charge |-> Len(cache_key) + Len(row.buffer)
                                         + kSizeofString]
                    ELSE cache,
          row |-> [row EXCEPT !.has_buffer = FALSE, !.buffer = <<>>],
          attempted |-> TRUE,
          status_ok |-> insert_ok]
    ELSE [cache |-> cache, row |-> row, attempted |-> FALSE,
          status_ok |-> row.status_ok]

\* RowCacheContext::AddToCache, lines 424-433: the cache entry for the
\* lookup's cache key, the context, whose buffer the cache takes over,
\* whether Cache::Insert was called, and the Status returned. insert_ok is
\* what Cache::Insert returns, which line 429 drops; a Cache that refuses an
\* entry keeps what it had. REQUIRES: cache_key is not empty
AddToCache(row, cache_key, cache, insert_ok) ==
    IF row.status_ok /\ row.has_buffer
    THEN [cache |-> IF insert_ok
                    THEN [null |-> FALSE, log |-> row.buffer,
                          charge |-> Len(cache_key) + Len(row.buffer)
                                         + kSizeofString]
                    ELSE cache,
          row |-> [row EXCEPT !.has_buffer = FALSE, !.buffer = <<>>],
          attempted |-> TRUE,
          status_ok |-> row.status_ok]
    ELSE [cache |-> cache, row |-> row, attempted |-> FALSE,
          status_ok |-> row.status_ok]

ValueTypes ==
    {"kTypeDeletion", "kTypeValue", "kTypeMerge", "kTypeSingleDeletion",
     "kTypeRangeDeletion", "kTypeValueIndex", "kTypeMergeIndex"}

\* static_cast<ValueType>(byte), line 347
ValueTypeOfByte(byte) ==
    IF \E t \in ValueTypes : TypeCode(t) = byte
    THEN CHOOSE t \in ValueTypes : TypeCode(t) = byte
    ELSE "unknown"

\* the while loop of GetFromRowCache, lines 346-398: one (type, value) pair
\* is cut off the log and handed to SaveValue with kMaxSequenceNumber; what
\* SaveValue returns is dropped. abort: an assert failed on the way
RECURSIVE ReplayLoop(_, _, _, _)
ReplayLoop(replay_log, user_key, c, npairs) ==
    IF Len(replay_log) = 0
    THEN [c |-> c, abort |-> FALSE, npairs |-> npairs]
    ELSE IF Len(replay_log) < 2 \/ Len(replay_log) < 2 + replay_log[2]
    THEN [c |-> c, abort |-> TRUE, npairs |-> npairs]    \* assert(ret)
    ELSE LET type == ValueTypeOfByte(replay_log[1])
             size == replay_log[2]
             value == SubSeq(replay_log, 3, 2 + size)
             rest == SubSeq(replay_log, 3 + size, Len(replay_log))
             r == SaveValue(c, RowCacheContext,
                            InternalKey(user_key, kMaxSequenceNumber, type),
                            value)
         IN  IF r.abort
             THEN [c |-> r.c, abort |-> TRUE, npairs |-> npairs + 1]
             ELSE ReplayLoop(rest, user_key, r.c, npairs + 1)

\* RowCacheContext::GetFromRowCache, lines 303-402, for the entry the row
\* cache holds under the lookup's cache key: whether it was a hit, and
\* *get_context (here context) afterwards
GetFromRowCache(key, cache, context) ==
    IF context.seq_ # NoPtr       \* assert(!NeedToReadSequence())
    THEN [hit |-> FALSE, c |-> context, abort |-> TRUE, npairs |-> 0]
    ELSE IF cache.null
    THEN [hit |-> FALSE, c |-> context, abort |-> FALSE, npairs |-> 0]
    ELSE LET r == ReplayLoop(cache.log, ExtractUserKey(key), context, 0)
         IN  [hit |-> TRUE, c |-> r.c, abort |-> r.abort,
              npairs |-> r.npairs]

----------------------------------------------------------------------------
(* HashSkipListRep::Get and the visitors it drives *)

\* A visitor (callback_func with its callback_args) is one of
\*   [kind |-> "StopAt", n |-> n]   returns false at its n-th call, true before
\*   [kind |-> "SaveValue", c |-> c] parses the entry and hands it to
\*                                   GetContext::SaveValue of c (no replay log)
StopAtVisitor(n) == [kind |-> "StopAt", n |-> n]

SaveValueVisitor(c) == [kind |-> "SaveValue", c |-> c, abort |-> FALSE]

\* one call of callback_func(callback_args, pair): the flag returned and the
\* visitor afterwards; ncalls counts the calls made before this one
CallVisitor(visitor, ncalls, entry) ==
    IF visitor.kind = "StopAt"
    THEN [ret |-> ncalls + 1 < visitor.n, visitor |-> visitor]
    ELSE LET r == SaveValue(visitor.c, RowCacheContext,
                            GetLengthPrefixedSlice(entry), entry.value)
         IN  [ret |-> r.ret /\ ~r.abort,
              visitor |-> [kind |-> "SaveValue", c |-> r.c,
                           abort |-> r.abort]]

\* the for loop with the visitor's answer dropped: it runs to the end of the
\* bucket
RECURSIVE GetLoopNoStop(_, _, _, _)
GetLoopNoStop(list, node, visitor, calls) ==
    IF node = NULL THEN [calls |-> calls, visitor |-> visitor]
    ELSE LET r == CallVisitor(visitor, Len(calls), node)
         IN  GetLoopNoStop(list, SkipListNext(list, node), r.visitor,
                           Append(calls, [key |-> node, ret |-> r.ret]))

\* lines 302-305: the for loop from the node iter stands on
RECURSIVE GetLoop(_, _, _, _)
GetLoop(list, node, visitor, calls) ==
    IF node = NULL THEN [calls |-> calls, visitor |-> visitor]
    ELSE LET r == CallVisitor(visitor, Len(calls), node)
             called == Append(calls, [key |-> node, ret |-> r.ret])
         IN  IF r.ret
             THEN GetLoop(list, SkipListNext(list, node), r.visitor, called)
             ELSE [calls |-> called, visitor |-> r.visitor]

\* HashSkipListRep::Get, lines 294-307: the visitor calls made, in order,
\* and the visitor afterwards
Get(bk, ls, k, visitor) ==
    LET transformed == Transform(k.user_key)
        bucket == GetBucket(bk, transformed)
    IN  IF bucket # NULL
        THEN GetLoop(Deref(ls, bucket),
                     SkipListSeek(Deref(ls, bucket), EncodeKey(k)),
                     visitor, <<>>)
        ELSE [calls |-> <<>>, visitor |-> visitor]

----------------------------------------------------------------------------
(* HashSkipListRep::Iterator and DynamicIterator *)

NoIter == [kind |-> "none"]

\* the threads that call Insert concurrently, and none of them inside a call
Writers == {"w1", "w2"}
Idle == [pc |-> "idle"]
NoWriters == [w \in Writers |-> Idle]

NoOut == [op |-> "none"]

\* list_ of an iterator that owns its Bucket (the snapshot of GetIterator)
OwnedPtr == [slot |-> -1, idx |-> 1]

\* Iterator(list, own_list, arena), lines 85-87. History, not program state:
\* born, the entries whose Insert had returned when the iterator was made, and
\* target, the key of the last Seek (NULL after SeekToFirst / SeekToLast)
Iterator(kind, list, owned, own_list, born) ==
    [kind |-> kind, list_ |-> list, owned |-> owned, node |-> NULL,
     own_list_ |-> own_list, born |-> born, target |-> NULL]

\* the Bucket list_ points to
IterList(ls, i) == IF i.list_ = OwnedPtr THEN i.owned ELSE Deref(ls, i.list_)

\* Iterator::Valid, lines 98-100
Valid(i) == i.list_ # NULL /\ i.node # NULL

\* Iterator::Reset, lines 157-165
Reset(i, list) ==
    [i EXCEPT !.owned = <<>>, !.list_ = list, !.node = NULL,
              !.own_list_ = FALSE]

\* Iterator::Seek, lines 124-132
IteratorSeek(ls, i, internal_key) ==
    IF i.list_ # NULL
    THEN [i EXCEPT !.node = SkipListSeek(IterList(ls, i),
                                         EncodeKey(internal_key))]
    ELSE i

\* DynamicIterator::Seek that keeps the bucket it is already bound to
DynamicIteratorSeekNoRebind(bk, ls, i, k) ==
    LET transformed == Transform(ExtractUserKey(k))
    IN  IF i.list_ # NULL THEN IteratorSeek(ls, i, k)
        ELSE IteratorSeek(ls, Reset(i, GetBucket(bk, transformed)), k)

\* DynamicIterator::Seek, lines 185-189
DynamicIteratorSeek(bk, ls, i, k) ==
    LET transformed == Transform(ExtractUserKey(k))
    IN  IteratorSeek(ls, Reset(i, GetBucket(bk, transformed)), k)

\* the Bucket GetIterator builds, lines 312-321: every entry of every bucket,
\* slot by slot, inserted into one new list
RECURSIVE InsertAll(_, _)
InsertAll(list, src) ==
    IF src = <<>> THEN list
    ELSE InsertAll(SkipListInsert(list, Head(src)), Tail(src))

RECURSIVE CollectFrom(_, _, _, _)
CollectFrom(bk, ls, i, list) ==
    IF i >= bucket_size_ THEN list
    ELSE LET bucket == GetBucketAt(bk, i)
         IN  CollectFrom(bk, ls, i + 1,
                 IF bucket # NULL THEN InsertAll(list, Deref(ls, bucket))
                 ELSE list)

\* the buckets appended slot by slot, not inserted in order
GetIteratorListConcat(bk, ls) ==
    Concat([i \in 1..bucket_size_ |->
               IF GetBucketAt(bk, i - 1) # NULL
               THEN Deref(ls, GetBucketAt(bk, i - 1)) ELSE <<>>])

GetIteratorList(bk, ls) == CollectFrom(bk, ls, 0, <<>>)

----------------------------------------------------------------------------
(* The inputs of the model *)

\* user keys: the first byte is the prefix the transform extracts
UserKeys == {<<1, 1>>, <<1, 2>>, <<2, 1>>}

\* the value of the entry written at a sequence number names that sequence
ValueAt(seq) == <<seq>>

EntriesOf(uks, seqs, types) ==
    {Entry(uk, seq, t, ValueAt(seq)) : uk \in uks, seq \in seqs, t \in types}

\* what Insert is called with: three versions of <<1, 1>> as Value and as
\* Merge, two of <<1, 2>> (same prefix, same bucket) and of <<2, 1>> (another
\* prefix), and the one-byte key <<3>>, which shares a slot with prefix <<1>>
\* when there are two slots
Records ==
    EntriesOf({<<1, 1>>}, {1, 3, 5}, {"kTypeValue", "kTypeMerge"})
        \cup EntriesOf({<<1, 2>>, <<2, 1>>}, {1, 3}, {"kTypeValue"})
        \cup EntriesOf({<<3>>}, {1}, {"kTypeValue"})

SmallRecords ==
    EntriesOf({<<1, 1>>, <<2, 1>>}, {1, 3}, {"kTypeValue"})
        \cup EntriesOf({<<1, 2>>, <<3>>}, {1}, {"kTypeValue"})

LookupKeys ==
    {LookupKey(uk, seq) : uk \in UserKeys \cup {<<3>>}, seq \in {0, 2, 3, 5, 6}}

SmallLookupKeys ==
    {LookupKey(uk, seq) : uk \in {<<1, 1>>, <<2, 1>>, <<3>>}, seq \in {1, 3}}

\* the merge operators a lookup is run with
SumOperator == MergeOperator("sum", TRUE, 0)
FailingOperator == MergeOperator("append", FALSE, 0)

\* the GetContext of a memtable lookup of user_key: normal mode, an output
\* slot and a merge context, no snapshot callback, no covering tombstone
LookupContext(merge_operator, user_key) ==
    GetContext(merge_operator, "kNotFound", user_key, TRUE, FALSE, TRUE,
               NoPtr, FALSE, NoPtr, FALSE)

\* the visitors Get is called with: one that stops at its first call, one at
\* its second, one that never stops, and SaveValue of a fresh GetContext
Visitors(user_key) ==
    {StopAtVisitor(n) : n \in {1, 2, MaxRecords + 1}}
        \cup {SaveValueVisitor(LookupContext(op, user_key)) :
                 op \in {SumOperator, FailingOperator}}

SmallVisitors(user_key) ==
    {StopAtVisitor(2), StopAtVisitor(MaxRecords + 1),
     SaveValueVisitor(LookupContext(SumOperator, user_key))}

\* the user key the row-cached lookup is for, and another one
Target == <<1, 1>>
Other == <<1, 2>>

\* an operator that asks for the merge once it holds two operands
EagerOperator == MergeOperator("append", TRUE, 2)
EagerFailingOperator == MergeOperator("append", FALSE, 2)
AppendOperator == MergeOperator("append", TRUE, 0)

\* the covering tombstone sequence handed to the constructor: none, the
\* initial 0, or one newer than all but the newest record
TombstoneSeqs == {NoPtr, 0, 2 * MaxStream - 2}

\* the snapshot of the ReadCallback: none, or one older than the newest record
CallbackSeqs == {NoPtr, 2 * MaxStream - 3}

\* the GetContexts a lookup is made with; all start in kNotFound
Configs ==
    {GetContext(op, "kNotFound", Target, lv, FALSE, TRUE, ts, FALSE, cb, tr) :
         op \in {NULL, SumOperator, AppendOperator, FailingOperator,
                 EagerOperator},
         lv \in BOOLEAN, ts \in TombstoneSeqs, cb \in CallbackSeqs,
         tr \in BOOLEAN}
    \cup {GetContext(SumOperator, "kNotFound", Target, TRUE, FALSE, mc, ts, sq,
                     NoPtr, FALSE) :
              mc \in BOOLEAN, ts \in TombstoneSeqs, sq \in BOOLEAN}
    \cup {GetContext(EagerFailingOperator, "kNotFound", Target, lv, FALSE, TRUE,
                     NoPtr, FALSE, NoPtr, FALSE) : lv \in BOOLEAN}

\* the sequence number of the n-th record of a stream: newest first
StreamSeq(n) == 2 * (MaxStream - n) + 1

\* an index value: the marker byte 0, then the bytes of the value it stands for
IndexValueAt(seq) == <<0>> \o ValueAt(seq)

\* the records a stream can hold at place n: one of the target key of each
\* type, a Value and a Merge of the target key that cannot be decoded, and
\* one of another user key
StreamRecords(n) ==
    {[key |-> InternalKey(Target, StreamSeq(n), t),
      value |-> IF t \in {"kTypeValue", "kTypeMerge"}
                THEN ValueAt(StreamSeq(n))
                ELSE IF t \in {"kTypeValueIndex", "kTypeMergeIndex"}
                THEN IndexValueAt(StreamSeq(n))
                ELSE EmptySlice] : t \in ValueTypes}
    \cup {[key |-> InternalKey(Target, StreamSeq(n), "kTypeValue"),
           value |-> <<255>>],
          [key |-> InternalKey(Target, StreamSeq(n), "kTypeMerge"),
           value |-> <<255>>],
          [key |-> InternalKey(Other, StreamSeq(n), "kTypeValue"),
           value |-> ValueAt(StreamSeq(n))]}

----------------------------------------------------------------------------
(* State and operations *)

Init ==
    /\ buckets = [i \in Slots |-> 0]
    /\ lists = [i \in Slots |-> <<>>]
    /\ inserted = {}
    /\ it = NoIter
    /\ out = NoOut
    /\ pc = "none"
    /\ made = NULL
    /\ get_context = NULL
    /\ row_cache_context = RowCacheContext
    /\ row_cache = NoEntry
    /\ fed = <<>>
    /\ replay = NULL
    /\ writers = NoWriters

\* Insert(handle), lines 271-278. REQUIRES: nothing that compares equal to
\* the key is in the index (assert(!Contains(internal_key)))
Insert(key) ==
    /\ Cardinality(inserted) < MaxRecords
    /\ ~Contains(buckets, lists, GetLengthPrefixedSlice(key))
    /\ LET r == InsertInto(buckets, lists, key)
       IN  /\ buckets' = r.buckets
           /\ lists' = r.lists
    /\ inserted' = inserted \cup {key}
    /\ out' = [op |-> "Insert", key |-> key]
    /\ UNCHANGED it
    /\ UNCHANGED <<resolverVars, writers>>

\* Contains(internal_key), lines 280-288
ContainsOp(internal_key) ==
    /\ out' = [op |-> "Contains", key |-> internal_key,
               ret |-> Contains(buckets, lists, internal_key)]
    /\ UNCHANGED <<buckets, lists, inserted, it>>
    /\ UNCHANGED <<resolverVars, writers>>

\* Get(k, callback_args, callback_func), lines 294-307
GetOp(k, visitor) ==
    /\ LET r == Get(buckets, lists, k, visitor)
       IN  out' = [op |-> "Get", key |-> k, given |-> visitor,
                   calls |-> r.calls, visitor |-> r.visitor]
    /\ UNCHANGED <<buckets, lists, inserted, it>>
    /\ UNCHANGED <<resolverVars, writers>>

\* GetIterator(arena), lines 309-328
GetIterator ==
    /\ it = NoIter
    /\ it' = Iterator("Iterator", OwnedPtr, GetIteratorList(buckets, lists),
                      TRUE, inserted)
    /\ out' = [op |-> "GetIterator"]
    /\ UNCHANGED <<buckets, lists, inserted>>
    /\ UNCHANGED <<resolverVars, writers>>

\* GetDynamicPrefixIterator(arena), lines 330-337, with the constructor of
\* DynamicIterator, lines 180-182
GetDynamicPrefixIterator ==
    /\ it = NoIter
    /\ it' = Iterator("DynamicIterator", NULL, <<>>, FALSE, {})
    /\ out' = [op |-> "GetDynamicPrefixIterator"]
    /\ UNCHANGED <<buckets, lists, inserted>>
    /\ UNCHANGED <<resolverVars, writers>>

\* ~Iterator(), lines 89-95
DeleteIterator ==
    /\ it # NoIter
    /\ it' = NoIter
    /\ out' = [op |-> "~Iterator"]
    /\ UNCHANGED <<buckets, lists, inserted>>
    /\ UNCHANGED <<resolverVars, writers>>

\* Valid(), lines 98-100
ValidOp ==
    /\ it # NoIter
    /\ out' = [op |-> "Valid", ret |-> Valid(it)]
    /\ UNCHANGED <<buckets, lists, inserted, it>>
    /\ UNCHANGED <<resolverVars, writers>>

\* key(), lines 104-107. REQUIRES: Valid()
KeyOp ==
    /\ it # NoIter
    /\ Valid(it)
    /\ out' = [op |-> "key", ret |-> it.node]
    /\ UNCHANGED <<buckets, lists, inserted, it>>
    /\ UNCHANGED <<resolverVars, writers>>

\* Next(), lines 111-114. REQUIRES: Valid()
NextOp ==
    /\ it # NoIter
    /\ Valid(it)
    /\ it' = [it EXCEPT !.node = SkipListNext(IterList(lists, it), it.node)]
    /\ out' = [op |-> "Next"]
    /\ UNCHANGED <<buckets, lists, inserted>>
    /\ UNCHANGED <<resolverVars, writers>>

\* Prev(), lines 118-121. REQUIRES: Valid()
PrevOp ==
    /\ it # NoIter
    /\ Valid(it)
    /\ it' = [it EXCEPT !.node = SkipListPrev(IterList(lists, it), it.node)]
    /\ out' = [op |-> "Prev"]
    /\ UNCHANGED <<buckets, lists, inserted>>
    /\ UNCHANGED <<resolverVars, writers>>

\* Seek(k, memtable_key): Iterator::Seek, lines 124-132, or
\* DynamicIterator::Seek, lines 185-189
SeekOp(k) ==
    /\ it # NoIter
    /\ it' = [(IF it.kind = "DynamicIterator"
               THEN DynamicIteratorSeek(buckets, lists, it, k)
               ELSE IteratorSeek(lists, it, k)) EXCEPT !.target = k]
    /\ out' = [op |-> "Seek", key |-> k]
    /\ UNCHANGED <<buckets, lists, inserted>>
    /\ UNCHANGED <<resolverVars, writers>>

\* SeekToFirst(): lines 143-147, or DynamicIterator's, lines 193-197
SeekToFirstOp ==
    /\ it # NoIter
    /\ it' = [(IF it.kind = "DynamicIterator" THEN Reset(it, NULL)
               ELSE IF it.list_ # NULL
               THEN [it EXCEPT !.node =
                                   SkipListSeekToFirst(IterList(lists, it))]
               ELSE it) EXCEPT !.target = NULL]
    /\ out' = [op |-> "SeekToFirst"]
    /\ UNCHANGED <<buckets, lists, inserted>>
    /\ UNCHANGED <<resolverVars, writers>>

\* SeekToLast(): lines 151-155, or DynamicIterator's, lines 201-205
SeekToLastOp ==
    /\ it # NoIter
    /\ it' = [(IF it.kind = "DynamicIterator" THEN Reset(it, NULL)
               ELSE IF it.list_ # NULL
               THEN [it EXCEPT !.node =
                                   SkipListSeekToLast(IterList(lists, it))]
               ELSE it) EXCEPT !.target = NULL]
    /\ out' = [op |-> "SeekToLast"]
    /\ UNCHANGED <<buckets, lists, inserted>>
    /\ UNCHANGED <<resolverVars, writers>>

IteratorOps(keys) ==
    \/ GetIterator
    \/ GetDynamicPrefixIterator
    \/ DeleteIterator
    \/ ValidOp
    \/ KeyOp
    \/ NextOp
    \/ PrevOp
    \/ \E k \in keys : SeekOp(k)
    \/ SeekToFirstOp
    \/ SeekToLastOp

\* the whole interface of one index
Next ==
    \/ \E key \in SmallRecords : Insert(key)
    \/ \E key \in SmallRecords : ContainsOp(GetLengthPrefixedSlice(key))
    \/ \E k \in SmallLookupKeys :
          \E v \in SmallVisitors(k.user_key) : GetOp(k, v)
    \/ IteratorOps(SmallLookupKeys)

Spec == Init /\ [][Next]_vars

\* point lookups over a wider set of entries
NextLookup ==
    \/ \E key \in Records : Insert(key)
    \/ \E key \in Records : ContainsOp(GetLengthPrefixedSlice(key))
    \/ \E k \in LookupKeys : \E v \in Visitors(k.user_key) : GetOp(k, v)

SpecLookup == Init /\ [][NextLookup]_vars

----------------------------------------------------------------------------
(* One lookup through GetContext, recorded for the row cache and replayed *)

InitResolver ==
    /\ buckets = [i \in Slots |-> 0]
    /\ lists = [i \in Slots |-> <<>>]
    /\ inserted = {}
    /\ it = NoIter
    /\ out = NoOut
    /\ pc = "scan"
    /\ made \in Configs
    /\ get_context = made
    /\ row_cache_context = RowCacheContext
    /\ row_cache = NoEntry
    /\ fed = <<>>
    /\ replay = NULL
    /\ writers = NoWriters

\* an assert of SaveValue failed during the lookup
Aborted == \E j \in 1..Len(fed) : fed[j].abort

\* get_context.SetReplayLog(RowCacheContext::AddReplayLog, &row_cache_context)
\* before the first record
SetReplayLogOn ==
    /\ pc = "scan"
    /\ fed = <<>>
    /\ ~get_context.replay_log_callback_
    /\ LET r == SetReplayLog(get_context, row_cache_context, TRUE)
       IN  /\ get_context' = r.c
           /\ row_cache_context' = r.row
    /\ UNCHANGED <<idxVars, writers, pc, made, row_cache, fed, replay>>

\* get_context.SaveValue(parsed_key, value, &matched): the caller goes on
\* with the next record or source while state_ is kNotFound or kMerge
SaveValueOp(record) ==
    /\ pc = "scan"
    /\ ~Aborted
    /\ Len(fed) < MaxStream
    /\ get_context.state_ \in {"kNotFound", "kMerge"}
    /\ LET r == SaveValue(get_context, row_cache_context, record.key,
                          record.value)
       IN  /\ get_context' = r.c
           /\ row_cache_context' = r.row
           /\ fed' = Append(fed, [key |-> record.key, value |-> record.value,
                                  before |-> get_context.state_,
                                  after |-> r.c.state_,
                                  min_seq_type |-> get_context.min_seq_type_,
                                  ret |-> r.ret, matched |-> r.matched,
                                  abort |-> r.abort])
    /\ UNCHANGED <<idxVars, writers, pc, made, row_cache, replay>>

\* get_context.SetReplayLog(nullptr, nullptr) after the scan
SetReplayLogOff ==
    /\ pc = "scan"
    /\ ~Aborted
    /\ get_context.replay_log_callback_
    /\ LET r == SetReplayLog(get_context, row_cache_context, FALSE)
       IN  /\ get_context' = r.c
           /\ row_cache_context' = r.row
    /\ pc' = "detached"
    /\ UNCHANGED <<idxVars, writers, made, row_cache, fed, replay>>

\* the cache keys of the lookup: the row cache id, file number and sequence
\* prefix, of one byte or of two, before the user key (table_cache.cc)
CacheKeys == {<<9>> \o Target, <<9, 9>> \o Target}

\* row_cache_context.AddToCache(cache_key, row_cache); out keeps the call:
\* its arguments, whether Cache::Insert was called and with what result,
\* and the Status returned
AddToCacheOp(cache_key, insert_ok) ==
    /\ pc = "detached"
    /\ LET r == AddToCache(row_cache_context, cache_key, row_cache, insert_ok)
       IN  /\ row_cache' = r.cache
           /\ row_cache_context' = r.row
           /\ out' = [op |-> "AddToCache", cache_key |-> cache_key,
                      row |-> row_cache_context, cache |-> row_cache,
                      attempted |-> r.attempted, insert_ok |-> insert_ok,
                      status_ok |-> r.status_ok]
    /\ pc' = "cached"
    /\ UNCHANGED <<buckets, lists, inserted, it, writers, made, get_context,
                   fed, replay>>

\* a later lookup of the same key: GetFromRowCache with a GetContext made
\* the way the first one was
GetFromRowCacheOp ==
    /\ pc = "cached"
    /\ replay' = GetFromRowCache(LookupKey(Target, kMaxSequenceNumber),
                                 row_cache, made)
    /\ pc' = "replayed"
    /\ UNCHANGED <<idxVars, writers, made, get_context, row_cache_context, row_cache,
                   fed>>

NextResolver ==
    \/ SetReplayLogOn
    \/ \E record \in StreamRecords(Len(fed) + 1) : SaveValueOp(record)
    \/ SetReplayLogOff
    \/ \E cache_key \in CacheKeys : \E insert_ok \in BOOLEAN :
           AddToCacheOp(cache_key, insert_ok)
    \/ GetFromRowCacheOp

SpecResolver == InitResolver /\ [][NextResolver]_vars

----------------------------------------------------------------------------
(* Properties of the index *)

UserKeyOf(entry) == ExtractUserKey(GetLengthPrefixedSlice(entry))

\* the entries of the bucket published in slot i
PublishedIn(i) == IF buckets[i] = 0 THEN {} ELSE SeqToSet(lists[i][buckets[i]])

\* the keys a Get handed to its visitor, in order
CallKeys(calls) == [j \in 1..Len(calls) |-> calls[j].key]

\* C1: every entry whose Insert has returned is reported by Contains, in every
\* state any further Insert, Contains, Get, GetIterator or iterator
\* operation leads to; a Contains call for such a key returned true
C1_InsertedStaysContained ==
    /\ \A key \in inserted :
           Contains(buckets, lists, GetLengthPrefixedSlice(key))
    /\ (out.op = "Contains"
            /\ \E key \in inserted : GetLengthPrefixedSlice(key) = out.key)
           => out.ret

\* C1 witness: Contains answered true for an inserted key after further
\* inserts, with an iterator positioned on the index
C1_Witness ==
    /\ out.op = "Contains"
    /\ out.ret
    /\ Cardinality(inserted) = MaxRecords
    /\ it # NoIter
    /\ it.node # NULL

\* C2: entries whose user keys have equal transformed prefixes lie in the
\* one bucket published for their shard; a Get that is never told to stop
\* visits every such entry at or after its lookup key, and Contains finds
\* exactly the inserted keys
C2_SamePrefixSameShard ==
    /\ \A e1 \in inserted : \A e2 \in inserted :
           Transform(UserKeyOf(e1)) = Transform(UserKeyOf(e2))
               => \E i \in Slots : {e1, e2} \subseteq PublishedIn(i)
    /\ (out.op = "Get" /\ out.given = StopAtVisitor(MaxRecords + 1))
           => \A e \in inserted :
                  (/\ Transform(UserKeyOf(e)) = Transform(out.key.user_key)
                   /\ compare_(EncodeKey(out.key), e) <= 0)
                      => e \in SeqToSet(CallKeys(out.calls))
    /\ out.op = "Contains"
           => (out.ret <=>
                   \E e \in inserted : GetLengthPrefixedSlice(e) = out.key)

\* C2 witness: a Get that was never told to stop visited entries of two
\* user keys with one prefix
C2_Witness ==
    /\ out.op = "Get"
    /\ out.given = StopAtVisitor(MaxRecords + 1)
    /\ \E i \in 1..Len(out.calls) : \E j \in 1..Len(out.calls) :
           /\ UserKeyOf(out.calls[i].key) # UserKeyOf(out.calls[j].key)
           /\ Transform(UserKeyOf(out.calls[i].key))
                  = Transform(UserKeyOf(out.calls[j].key))

\* the bucket Get addresses for lookup key k, as a list (empty without one)
AddressedBucket(k) ==
    LET i == GetHash(Transform(k.user_key))
    IN  IF buckets[i] = 0 THEN <<>> ELSE lists[i][buckets[i]]

AtOrAfter(list, k) ==
    SelectSeq(list, LAMBDA e : compare_(e, EncodeKey(k)) >= 0)

\* C3: the visitor calls of a Get are the entries of the addressed bucket
\* from the first one >= the lookup key on, one call each, in strictly
\* ascending order; every call but the last returned true, the calls end
\* before the end of the bucket only with a call that returned false, and
\* there is no call when the shard has no bucket
C3_GetVisitsInOrderUntilStop ==
    out.op = "Get" =>
        LET from == AtOrAfter(AddressedBucket(out.key), out.key)
            n == Len(out.calls)
        IN  /\ n <= Len(from)
            /\ \A j \in 1..n : out.calls[j].key = from[j]
            /\ \A j \in 1..n : \A l \in 1..n :
                   j < l => compare_(out.calls[j].key, out.calls[l].key) < 0
            /\ \A j \in 1..n : ~out.calls[j].ret => j = n
            /\ n < Len(from) => (n > 0 /\ ~out.calls[n].ret)
            /\ buckets[GetHash(Transform(out.key.user_key))] = 0 => n = 0

\* C3 witness: a Get that made two calls, was told to stop at the second and
\* left an entry of the bucket unvisited
C3_Witness ==
    /\ out.op = "Get"
    /\ Len(out.calls) = 2
    /\ ~out.calls[2].ret
    /\ Len(AtOrAfter(AddressedBucket(out.key), out.key)) > 2

\* what a walk over a list yields: SeekToFirst, then Next while Valid
RECURSIVE Walk(_, _, _)
Walk(list, node, fuel) ==
    IF node = NULL \/ fuel = 0 THEN <<>>
    ELSE <<node>> \o Walk(list, SkipListNext(list, node), fuel - 1)

Yield(list) == Walk(list, SkipListSeekToFirst(list), Len(list) + 1)

\* C9: the iterator of GetIterator yields exactly the entries whose Insert
\* had returned when it was made, each once, in ascending order, whatever
\* has been inserted since; the key it stands on is one of them
C9_SnapshotIteratorYieldsAllInOrder ==
    it.kind = "Iterator" =>
        LET y == Yield(IterList(lists, it))
        IN  /\ SeqToSet(y) = it.born
            /\ Len(y) = Cardinality(it.born)
            /\ \A j \in 1..Len(y) : \A l \in 1..Len(y) :
                   j < l => compare_(y[j], y[l]) < 0
            /\ Valid(it) => it.node \in it.born
            /\ out.op = "key" => out.ret \in it.born

\* C9 witness: a snapshot iterator over entries of two shards, standing on an
\* entry, after a later Insert
C9_Witness ==
    /\ it.kind = "Iterator"
    /\ Valid(it)
    /\ \E e1 \in it.born : \E e2 \in it.born :
           GetHash(Transform(UserKeyOf(e1))) # GetHash(Transform(UserKeyOf(e2)))
    /\ inserted # it.born
    /\ out.op = "key"

\* C10: a dynamic prefix iterator is bound to no bucket or to the bucket of
\* the shard its last Seek target hashes to; the entry it stands on lies in
\* that bucket and hashes to that shard; bound to no bucket it is not valid;
\* it is bound to none when that shard has no bucket, and after SeekToFirst
\* or SeekToLast; and only Insert publishes buckets
C10_DynamicIteratorStaysInShard ==
    /\ it.kind = "DynamicIterator" =>
           /\ it.target = NULL => (it.list_ = NULL /\ ~Valid(it))
           /\ it.target # NULL =>
                  LET shard == GetHash(Transform(ExtractUserKey(it.target)))
                  IN  /\ it.list_ # NULL
                          => it.list_ = BucketPtr(shard, buckets[shard])
                      /\ buckets[shard] = 0 => (it.list_ = NULL /\ ~Valid(it))
                      /\ Valid(it) =>
                             /\ it.node \in PublishedIn(shard)
                             /\ GetHash(Transform(UserKeyOf(it.node))) = shard
                      /\ out.op = "key" => out.ret \in PublishedIn(shard)
           /\ it.list_ = NULL => ~Valid(it)
    /\ \A i \in Slots :
           buckets[i] # 0
               => \E e \in inserted : GetHash(Transform(UserKeyOf(e))) = i

\* C10 witness: after a Seek the iterator moved, inside the target's shard,
\* to an entry of another prefix
C10_Witness ==
    /\ it.kind = "DynamicIterator"
    /\ it.target # NULL
    /\ Valid(it)
    /\ Transform(UserKeyOf(it.node)) # Transform(ExtractUserKey(it.target))
    /\ out.op = "key"

\* C10 witness of the other case: Seek to a shard without a bucket
C10_WitnessNoBucket ==
    /\ it.kind = "DynamicIterator"
    /\ it.target # NULL
    /\ it.list_ = NULL
    /\ inserted # {}

----------------------------------------------------------------------------
(* Properties of a lookup: Get driving SaveValue *)

\* the records Get presents for lookup key k while nothing stops it
Candidates(k) == AtOrAfter(AddressedBucket(k), k)

\* those of them that are records of k's user key: the visible records of
\* the key, newest first
VisibleRecords(k) ==
    SelectSeq(Candidates(k), LAMBDA e : UserKeyOf(e) = k.user_key)

ValuesOf(records) == [j \in 1..Len(records) |-> records[j].value]

\* a Get has just run with a resolver for its own user key as the visitor
LookupDone ==
    /\ out.op = "Get"
    /\ out.given.kind = "SaveValue"
    /\ out.given.c.user_key_ = out.key.user_key

\* the records (seq 5, Value), (seq 3, Merge), (seq 1, Value) of one key
Scenario ==
    {Entry(<<1, 1>>, 5, "kTypeValue", ValueAt(5)),
     Entry(<<1, 1>>, 3, "kTypeMerge", ValueAt(3)),
     Entry(<<1, 1>>, 1, "kTypeValue", ValueAt(1))}

\* C7: when the newest record of the key at or below the lookup sequence is
\* a Value, the lookup ends Found with that value after one visitor call (so
\* with the records of Scenario and a lookup at sequence >= 5: Found, the
\* seq-5 value, the seq-5 record only); and no record of the key older than
\* one SaveValue answered false for is presented
C7_LookupStopsAtNewestValue ==
    LookupDone =>
        /\ (/\ Len(Candidates(out.key)) > 0
            /\ UserKeyOf(Candidates(out.key)[1]) = out.key.user_key
            /\ GetLengthPrefixedSlice(Candidates(out.key)[1]).type
                   = "kTypeValue")
               => /\ out.visitor.c.state_ = "kFound"
                  /\ out.visitor.c.lazy_val_ = Candidates(out.key)[1].value
                  /\ CallKeys(out.calls) = <<Candidates(out.key)[1]>>
        /\ (inserted = Scenario /\ out.key.user_key = <<1, 1>>
                /\ out.key.sequence >= 5)
               => /\ out.visitor.c.state_ = "kFound"
                  /\ out.visitor.c.lazy_val_ = ValueAt(5)
                  /\ CallKeys(out.calls)
                         = <<Entry(<<1, 1>>, 5, "kTypeValue", ValueAt(5))>>
        /\ \A j \in 1..Len(out.calls) :
               ~out.calls[j].ret
                   => \A e \in inserted :
                          (/\ UserKeyOf(e) = UserKeyOf(out.calls[j].key)
                           /\ GetLengthPrefixedSlice(e).sequence
                                  < GetLengthPrefixedSlice(
                                        out.calls[j].key).sequence)
                              => e \notin SeqToSet(CallKeys(out.calls))

\* C7 witness: the scenario itself, looked up at sequence 6
C7_Witness ==
    /\ LookupDone
    /\ inserted = Scenario
    /\ out.key.user_key = <<1, 1>>
    /\ out.key.sequence = 6
    /\ Len(out.calls) = 1

\* the visible records of the looked-up key are Merge records, at least one,
\* and the resolver's operator is one that can merge
OnlyMergeRecords ==
    /\ LookupDone
    /\ ~out.given.c.merge_operator_.null
    /\ Len(VisibleRecords(out.key)) > 0
    /\ \A e \in inserted :
           UserKeyOf(e) = out.key.user_key
               => GetLengthPrefixedSlice(e).type = "kTypeMerge"

\* C8 as stated: with only Merge records for the key, the lookup ends Found
\* with the full merge, without base value, of all operands
C8_AsStated ==
    OnlyMergeRecords =>
        /\ out.visitor.c.state_ = "kFound"
        /\ out.visitor.c.lazy_val_
               = FullMerge(out.given.c.merge_operator_, FALSE, EmptySlice,
                           Reverse(ValuesOf(VisibleRecords(out.key))))

\* C8: with only Merge records for the key, a resolver whose operator does
\* not ask for an early merge ends the scan in state Merge, has written no
\* value, and holds every visible operand, newest first, in its merge
\* context; each record of the key was presented and answered with true
C8_MergeOnlyStaysMerge ==
    (OnlyMergeRecords /\ out.given.c.merge_operator_.should_merge_at = 0) =>
        /\ out.visitor.c.state_ = "kMerge"
        /\ out.visitor.c.lazy_val_ = EmptySlice
        /\ ~out.visitor.abort
        /\ GetOperandsDirectionBackward(out.visitor.c.merge_context_)
               = ValuesOf(VisibleRecords(out.key))
        /\ \A j \in 1..Len(VisibleRecords(out.key)) :
               /\ j <= Len(out.calls)
               /\ out.calls[j].key = VisibleRecords(out.key)[j]
               /\ out.calls[j].ret

\* C8 witness: two Merge records and nothing else for the key, all candidates
\* consumed, under the summing operator
C8_Witness ==
    /\ OnlyMergeRecords
    /\ out.given.c.merge_operator_ = SumOperator
    /\ Len(VisibleRecords(out.key)) = 2
    /\ Len(out.calls) = Len(Candidates(out.key))
    /\ out.visitor.c.state_ = "kMerge"

----------------------------------------------------------------------------
(* Properties of the resolver and of the replay log *)

LastFed == fed[Len(fed)]

DeletionTypes == {"kTypeDeletion", "kTypeSingleDeletion", "kTypeRangeDeletion"}

\* the stream so far: Merge records of the target key, all visible, then one
\* record of the target key, visible, whose type is in last
MergeChainEndingIn(last) ==
    /\ Len(fed) > 0
    /\ ~Aborted
    /\ \A j \in 1..Len(fed) :
           /\ fed[j].key.user_key = Target
           /\ CheckCallback(made, fed[j].key.sequence)
           /\ fed[j].value # <<255>>
           /\ j < Len(fed) => fed[j].key.type = "kTypeMerge"
    /\ LastFed.key.type \in last

\* the operands of the chain, newest first, and as GetOperands() hands them
\* to the merge operator
ChainOperands == [j \in 1..(Len(fed) - 1) |-> fed[j].value]

\* a resolver in normal mode with an output slot, a merge context and a merge
\* operator, and no covering tombstone
PlainResolver ==
    /\ ~made.trivial_
    /\ made.has_lazy_val
    /\ made.has_merge_context
    /\ ~made.merge_operator_.null
    /\ made.max_covering_tombstone_seq_ = NoPtr

\* C4 as stated: after Merge records and a Value the state is Found and the
\* output is fullMerge(value, operands), the value itself without operands;
\* after Merge records and a Deletion the output is fullMerge(no base,
\* operands) (read here for at least one operand)
C4_AsStated ==
    /\ (PlainResolver /\ MergeChainEndingIn({"kTypeValue"}))
           => /\ get_context.state_ = "kFound"
              /\ get_context.lazy_val_
                     = IF Len(fed) = 1 THEN LastFed.value
                       ELSE FullMerge(made.merge_operator_, TRUE,
                                      LastFed.value, Reverse(ChainOperands))
    /\ (PlainResolver /\ MergeChainEndingIn({"kTypeDeletion"})
            /\ Len(fed) > 1)
           => get_context.lazy_val_
                  = FullMerge(made.merge_operator_, FALSE, EmptySlice,
                              Reverse(ChainOperands))

\* what a chain with at least one operand resolves to: Found with the full
\* merge when the operator succeeds, Corrupt and no output when it fails,
\* Found and no output without an output slot
ChainMerged(has_base, base) ==
    IF ~made.has_lazy_val
    THEN get_context.state_ = "kFound" /\ get_context.lazy_val_ = EmptySlice
    ELSE IF made.merge_operator_.full_merge_ok
    THEN /\ get_context.state_ = "kFound"
         /\ get_context.lazy_val_
                = FullMerge(made.merge_operator_, has_base, base,
                            Reverse(ChainOperands))
    ELSE get_context.state_ = "kCorrupt" /\ get_context.lazy_val_ = EmptySlice

\* C4: for a resolver in normal mode, no record being covered by a range
\* tombstone: a visible Value alone ends Found with the value itself; Merge
\* records then a Value end Found with fullMerge(value, operands) when the
\* operator's full merge succeeds and Corrupt without output when it fails;
\* a deletion alone ends Deleted without output; Merge records then a
\* deletion end Found with fullMerge(no base, operands), or Corrupt; each
\* Merge record was answered with true and the last record with false
C4_MergeChainResolves ==
    (/\ ~made.trivial_
     /\ MergeChainEndingIn({"kTypeValue"} \cup DeletionTypes)
     /\ \A j \in 1..Len(fed) : ~CoveredByTombstone(made, fed[j].key))
        => /\ \A j \in 1..Len(fed) : fed[j].ret <=> j < Len(fed)
           /\ get_context.merge_context_ = ChainOperands
           /\ (LastFed.key.type = "kTypeValue" /\ Len(fed) = 1)
                  => /\ get_context.state_ = "kFound"
                     /\ get_context.lazy_val_
                            = IF made.has_lazy_val THEN LastFed.value
                              ELSE EmptySlice
           /\ (LastFed.key.type = "kTypeValue" /\ Len(fed) > 1)
                  => ChainMerged(TRUE, LastFed.value)
           /\ (LastFed.key.type \in DeletionTypes /\ Len(fed) = 1)
                  => /\ get_context.state_ = "kDeleted"
                     /\ get_context.lazy_val_ = EmptySlice
           /\ (LastFed.key.type \in DeletionTypes /\ Len(fed) > 1)
                  => ChainMerged(FALSE, EmptySlice)

\* C4 witness: two Merge records and a Value, merged by the summing operator
C4_Witness ==
    /\ MergeChainEndingIn({"kTypeValue"})
    /\ Len(fed) = 3
    /\ made.merge_operator_ = SumOperator
    /\ get_context.state_ = "kFound"
    /\ get_context.lazy_val_
           = <<fed[1].value[1] + fed[2].value[1] + fed[3].value[1]>>

\* C4 witness of the other ending: a Merge record and a Deletion
C4_WitnessDeletion ==
    /\ MergeChainEndingIn({"kTypeDeletion"})
    /\ Len(fed) = 2
    /\ made.merge_operator_ = AppendOperator
    /\ get_context.state_ = "kFound"
    /\ get_context.lazy_val_ = fed[1].value

\* C5: SaveValue, in state NotFound, on a visible Value record of the target
\* key that is older than the covering tombstone sequence, answers false and
\* leaves the state Deleted and the output untouched
C5_CoveredValueIsDeleted ==
    \A j \in 1..Len(fed) :
        (/\ fed[j].key.type = "kTypeValue"
         /\ fed[j].key.user_key = Target
         /\ CheckCallback(made, fed[j].key.sequence)
         /\ made.max_covering_tombstone_seq_ # NoPtr
         /\ made.max_covering_tombstone_seq_ > fed[j].key.sequence
         /\ fed[j].before = "kNotFound")
            => /\ ~fed[j].abort
               /\ ~fed[j].ret
               /\ j = Len(fed)
               /\ get_context.state_ = "kDeleted"
               /\ get_context.lazy_val_ = EmptySlice

\* C5 witness: a resolver with an output slot was handed a covered Value
C5_Witness ==
    /\ Len(fed) > 0
    /\ LastFed.key.type = "kTypeValue"
    /\ LastFed.key.user_key = Target
    /\ LastFed.before = "kNotFound"
    /\ made.has_lazy_val
    /\ made.max_covering_tombstone_seq_ > LastFed.key.sequence
    /\ LastFed.value # EmptySlice
    /\ get_context.state_ = "kDeleted"

\* the log of a scan was cached and replayed into a GetContext made like the
\* first, which has no ReadCallback; no assert failed
ReplayDone ==
    /\ pc = "replayed"
    /\ replay.hit
    /\ ~replay.abort
    /\ ~Aborted
    /\ made.callback_ = NoPtr

\* SetReplayLog(nullptr) added a RangeDeletion pair of its own to the log
SyntheticTombstone ==
    /\ get_context.state_ \in {"kNotFound", "kMerge"}
    /\ made.max_covering_tombstone_seq_ # NoPtr
    /\ made.max_covering_tombstone_seq_ # 0

\* C6 as stated: the replay ends in the state and with the value the scan
\* ended with
C6_AsStated ==
    ReplayDone
        => /\ replay.c.state_ = get_context.state_
           /\ replay.c.lazy_val_ = get_context.lazy_val_

\* C6: the replay ends in the state, with the value and with the operands
\* the scan ended with, unless the scan ended NotFound or Merge under a
\* non-zero covering tombstone sequence: the log then ends with a
\* RangeDeletion pair the scan never saw, and the replay ends Deleted where
\* the scan ended NotFound, and where it ended Merge ends Found with
\* fullMerge(no base, operands), or Corrupt when that merge fails
C6_ReplayReproducesScan ==
    ReplayDone =>
        IF ~SyntheticTombstone
        THEN /\ replay.c.state_ = get_context.state_
             /\ replay.c.lazy_val_ = get_context.lazy_val_
             /\ replay.c.merge_context_ = get_context.merge_context_
        ELSE IF get_context.state_ = "kNotFound"
        THEN /\ replay.c.state_ = "kDeleted"
             /\ replay.c.lazy_val_ = EmptySlice
        ELSE /\ replay.c.merge_context_ = get_context.merge_context_
             /\ replay.c.state_
                    = IF /\ made.has_lazy_val
                         /\ ~made.merge_operator_.full_merge_ok
                      THEN "kCorrupt" ELSE "kFound"
             /\ replay.c.lazy_val_
                    = IF /\ made.has_lazy_val
                         /\ made.merge_operator_.full_merge_ok
                      THEN FullMerge(made.merge_operator_, FALSE, EmptySlice,
                                     GetOperands(get_context.merge_context_))
                      ELSE EmptySlice

\* C6 witness: a log of three pairs replayed to the merged value of the scan
C6_Witness ==
    /\ ReplayDone
    /\ replay.npairs = 3
    /\ replay.c.state_ = "kFound"
    /\ get_context.state_ = "kFound"
    /\ Len(replay.c.lazy_val_) > 0
    /\ replay.c.lazy_val_ = get_context.lazy_val_

\* C6 witness of the other case: the replay of a scan that ended NotFound
\* under a covering tombstone
C6_WitnessSynthetic ==
    /\ ReplayDone
    /\ SyntheticTombstone
    /\ get_context.state_ = "kNotFound"
    /\ replay.c.state_ = "kDeleted"

----------------------------------------------------------------------------
(* SeekForPrev on the three iterator classes *)

\* SeekForPrev with the empty iterator's body in every class: nothing happens
SeekForPrevSilent(i) == [abort |-> FALSE, i |-> i]

\* SeekForPrev(internal_key, memtable_key): Iterator's, lines 135-139, which
\* DynamicIterator inherits, is assert(false); EmptyIterator's, lines 225-226,
\* has an empty body. Whether the assert failed, and the iterator afterwards
SeekForPrev(i) ==
    IF i.kind = "EmptyIterator"
    THEN [abort |-> FALSE, i |-> i]
    ELSE [abort |-> TRUE, i |-> i]

\* an assert of the iterator failed: the process is gone
Crashed == out.op = "SeekForPrev" /\ out.abort

\* EmptyIterator(), line 215. Nothing in the file constructs one; the class
\* is modelled as a caller could instantiate it
NewEmptyIterator ==
    /\ it = NoIter
    /\ it' = Iterator("EmptyIterator", NULL, <<>>, FALSE, {})
    /\ out' = [op |-> "EmptyIterator"]
    /\ UNCHANGED <<buckets, lists, inserted>>
    /\ UNCHANGED <<resolverVars, writers>>

\* EmptyIterator::Next and Prev, lines 221-222: empty bodies
EmptyNextPrevOp(op) ==
    /\ it # NoIter
    /\ it.kind = "EmptyIterator"
    /\ out' = [op |-> op]
    /\ UNCHANGED <<buckets, lists, inserted, it>>
    /\ UNCHANGED <<resolverVars, writers>>

\* SeekForPrev(k, memtable_key) on the iterator at hand
SeekForPrevOp(k) ==
    /\ it # NoIter
    /\ LET r == SeekForPrev(it)
       IN  /\ it' = r.i
           /\ out' = [op |-> "SeekForPrev", key |-> k, abort |-> r.abort,
                      before |-> it]
    /\ UNCHANGED <<buckets, lists, inserted>>
    /\ UNCHANGED <<resolverVars, writers>>

\* an index and one iterator of any of the three classes, until an assert
\* fails
NextIterator ==
    \/ ~Crashed /\ \E key \in SmallRecords : Insert(key)
    \/ ~Crashed /\ IteratorOps(SmallLookupKeys)
    \/ ~Crashed /\ NewEmptyIterator
    \/ ~Crashed /\ \E op \in {"Next", "Prev"} : EmptyNextPrevOp(op)
    \/ ~Crashed /\ \E k \in SmallLookupKeys : SeekForPrevOp(k)

SpecIterator == Init /\ [][NextIterator]_vars

\* C11 as stated: SeekForPrev on an iterator of any of the three classes
\* fails an assert; it never returns
C11_AsStated == out.op = "SeekForPrev" => out.abort

\* C11: SeekForPrev fails an assert on the static and on the dynamic prefix
\* iterator, wherever they stand; on the empty iterator it returns, and the
\* iterator is as it was, not valid
C11_SeekForPrevFailsUnlessEmpty ==
    out.op = "SeekForPrev" =>
        /\ out.before.kind \in {"Iterator", "DynamicIterator"} => out.abort
        /\ out.before.kind = "EmptyIterator"
               => (~out.abort /\ it = out.before /\ ~Valid(it))

\* C11 witness: SeekForPrev failed on a dynamic prefix iterator that stood on
\* an entry
C11_Witness ==
    /\ out.op = "SeekForPrev"
    /\ out.abort
    /\ out.before.kind = "DynamicIterator"
    /\ Valid(out.before)

\* C11 witness of the other case: SeekForPrev returned on an empty iterator
\* while the index held entries
C11_WitnessEmpty ==
    /\ out.op = "SeekForPrev"
    /\ ~out.abort
    /\ it.kind = "EmptyIterator"
    /\ inserted # {}

----------------------------------------------------------------------------
(* Properties of single SaveValue calls *)

\* the j-th call was for a record of the target key that the minimum
\* threshold and the visibility check let through
Processed(j) ==
    /\ fed[j].key.user_key = Target
    /\ PackSequenceAndType(fed[j].key.sequence, fed[j].key.type)
           >= fed[j].min_seq_type
    /\ CheckCallback(made, fed[j].key.sequence)

\* the type the j-th record was processed as
ProcessedAs(j) ==
    IF CoveredByTombstone(made, fed[j].key) THEN "kTypeRangeDeletion"
    ELSE fed[j].key.type

\* the number of operands held when the j-th call began
RECURSIVE OperandsBefore(_)
OperandsBefore(j) ==
    IF j <= 1 THEN 0
    ELSE OperandsBefore(j - 1)
             + (IF /\ Processed(j - 1)
                   /\ ProcessedAs(j - 1) \in {"kTypeMerge", "kTypeMergeIndex"}
                   /\ ~fed[j - 1].abort
                THEN 1 ELSE 0)

\* the j-th call ran a full merge: there is an output slot, and the record is
\* a Value or a tombstone met in state Merge, or a Merge at which the
\* operator's ShouldMerge is true
FullMergeInvoked(j) ==
    /\ Processed(j)
    /\ ~fed[j].abort
    /\ ~made.trivial_
    /\ made.has_lazy_val
    /\ ~made.merge_operator_.null
    /\ \/ /\ fed[j].before = "kMerge"
          /\ ProcessedAs(j) \in {"kTypeValue", "kTypeValueIndex"}
                                    \cup DeletionTypes
       \/ /\ fed[j].before \in {"kNotFound", "kMerge"}
          /\ ProcessedAs(j) \in {"kTypeMerge", "kTypeMergeIndex"}
          /\ made.merge_operator_.should_merge_at > 0
          /\ OperandsBefore(j) + 1 >= made.merge_operator_.should_merge_at

\* C12: when the full merge a SaveValue call ran failed, that call left the
\* state Corrupt and answered false; and a call leaves the state Corrupt
\* only so
C12_FailedMergeIsCorrupt ==
    \A j \in 1..Len(fed) :
        /\ (FullMergeInvoked(j) /\ ~made.merge_operator_.full_merge_ok)
               => (fed[j].after = "kCorrupt" /\ ~fed[j].ret)
        /\ (fed[j].after = "kCorrupt" /\ fed[j].before # "kCorrupt")
               => (FullMergeInvoked(j) /\ ~made.merge_operator_.full_merge_ok)

\* C12 witness: a merge failed at a Merge record for which ShouldMerge was
\* true
C12_Witness ==
    /\ Len(fed) = 2
    /\ FullMergeInvoked(2)
    /\ fed[2].key.type = "kTypeMerge"
    /\ ~made.merge_operator_.full_merge_ok
    /\ fed[2].after = "kCorrupt"

\* C12 witness: a merge failed at a tombstone met in state Merge
C12_WitnessTombstone ==
    /\ Len(fed) = 2
    /\ FullMergeInvoked(2)
    /\ fed[2].key.type = "kTypeDeletion"
    /\ ~made.merge_operator_.full_merge_ok
    /\ fed[2].after = "kCorrupt"

----------------------------------------------------------------------------
(* The bucket array over time *)

\* C13: with writers serialized, a slot of the bucket array that holds a
\* bucket keeps that bucket in every later step, a slot is given a bucket
\* only by Insert, and no slot is ever allocated a second bucket
C13_SlotsChangeAtMostOnce ==
    [][/\ \A i \in Slots :
              /\ buckets[i] # 0 => buckets'[i] = buckets[i]
              /\ Len(lists'[i]) <= 1
              /\ Len(lists[i]) = 1 => lists'[i][1] # <<>>
       /\ buckets' # buckets => out'.op = "Insert"
       /\ lists' # lists => out'.op = "Insert"]_vars

\* C13 witness: a published bucket took a second entry, and a Seek of a
\* dynamic prefix iterator then found a slot without a bucket
C13_Witness ==
    /\ \E i \in Slots : buckets[i] # 0 /\ Len(lists[i][buckets[i]]) >= 2
    /\ \E i \in Slots : buckets[i] = 0
    /\ out.op = "Seek"
    /\ it.kind = "DynamicIterator"
    /\ it.list_ = NULL

----------------------------------------------------------------------------
(* Insert by concurrent writers: the steps of GetInitializedBucket *)

\* publishing with a compare-and-swap: a slot that was filled meanwhile is
\* left alone and its bucket used
StoreNewBucketIfEmpty(bk, ls, hash) ==
    IF bk[hash] # 0
    THEN [buckets |-> bk, lists |-> ls, bucket |-> BucketPtr(hash, bk[hash])]
    ELSE [buckets |-> [bk EXCEPT ![hash] = Len(ls[hash]) + 1],
          lists   |-> [ls EXCEPT ![hash] = Append(@, <<>>)],
          bucket  |-> BucketPtr(hash, Len(ls[hash]) + 1)]

\* lines 263-266: a new Bucket is allocated and stored to the slot, whatever
\* the slot holds by now
StoreNewBucket(bk, ls, hash) ==
    [buckets |-> [bk EXCEPT ![hash] = Len(ls[hash]) + 1],
     lists   |-> [ls EXCEPT ![hash] = Append(@, <<>>)],
     bucket  |-> BucketPtr(hash, Len(ls[hash]) + 1)]

\* the keys of the Insert calls under way
InFlight == {writers[w].key : w \in {v \in Writers : writers[v].pc \in {"loaded", "ready"}}}

\* Insert, lines 271-276, up to the load in GetInitializedBucket, lines
\* 260-261. REQUIRES: the key is not in the index, nor being inserted
InsertLoad(w, key) ==
    /\ writers[w].pc \in {"idle", "done"}
    /\ Cardinality(inserted \cup InFlight) < MaxRecords
    /\ ~Contains(buckets, lists, GetLengthPrefixedSlice(key))
    /\ key \notin InFlight
    /\ LET transformed ==
               Transform(ExtractUserKey(GetLengthPrefixedSlice(key)))
           hash == GetHash(transformed)
       IN  writers' = [writers EXCEPT ![w] =
                           [pc |-> "loaded", key |-> key, hash |-> hash,
                            bucket |-> GetBucketAt(buckets, hash),
                            created |-> FALSE]]
    /\ UNCHANGED <<buckets, lists, inserted, it, out, resolverVars>>

\* GetInitializedBucket, lines 262-268: the test of what was loaded, and the
\* allocation and the store when it was nullptr
InsertPublish(w) ==
    /\ writers[w].pc = "loaded"
    /\ IF writers[w].bucket = NULL
       THEN LET r == StoreNewBucket(buckets, lists, writers[w].hash)
            IN  /\ buckets' = r.buckets
                /\ lists' = r.lists
                /\ writers' = [writers EXCEPT ![w].pc = "ready",
                                              ![w].bucket = r.bucket,
                                              ![w].created = TRUE]
       ELSE /\ writers' = [writers EXCEPT ![w].pc = "ready",
                                          ![w].created = FALSE]
            /\ UNCHANGED <<buckets, lists>>
    /\ UNCHANGED <<inserted, it, out, resolverVars>>

\* Insert, line 277: bucket->Insert(key), and the return
InsertReturn(w) ==
    /\ writers[w].pc = "ready"
    /\ lists' = [lists EXCEPT
                     ![writers[w].bucket.slot][writers[w].bucket.idx] =
                         SkipListInsert(@, writers[w].key)]
    /\ inserted' = inserted \cup {writers[w].key}
    /\ writers' = [writers EXCEPT ![w].pc = "done"]
    /\ out' = [op |-> "Insert", key |-> writers[w].key]
    /\ UNCHANGED <<buckets, it, resolverVars>>

\* two writers that are not serialized, and a reader
NextRace ==
    \/ \E w \in Writers : \E key \in SmallRecords : InsertLoad(w, key)
    \/ \E w \in Writers : InsertPublish(w)
    \/ \E w \in Writers : InsertReturn(w)
    \/ \E key \in SmallRecords : ContainsOp(GetLengthPrefixedSlice(key))

SpecRace == Init /\ [][NextRace]_vars

\* writers w1 and w2 both found the slot of one shard empty and have both
\* published since
Raced(w1, w2) ==
    /\ w1 # w2
    /\ writers[w1].pc \in {"ready", "done"}
    /\ writers[w2].pc \in {"ready", "done"}
    /\ writers[w1].created
    /\ writers[w2].created
    /\ writers[w1].hash = writers[w2].hash

\* C14: two writers that both loaded the empty slot of one shard before
\* either stored have each allocated a Bucket of their own; the slot holds
\* the one published later; each writer's record went into its own bucket,
\* and the record in the bucket published first is not found by Contains
C14_RacingWritersUseTwoBuckets ==
    \A w1 \in Writers : \A w2 \in Writers :
        Raced(w1, w2) =>
            LET h == writers[w1].hash
                b1 == writers[w1].bucket
                b2 == writers[w2].bucket
            IN  /\ b1 # b2
                /\ Len(lists[h]) = 2
                /\ buckets[h] = (IF b1.idx > b2.idx THEN b1.idx ELSE b2.idx)
                /\ writers[w1].pc = "done"
                       => /\ writers[w1].key \in SeqToSet(Deref(lists, b1))
                          /\ writers[w1].key \notin SeqToSet(Deref(lists, b2))
                /\ (writers[w1].pc = "done" /\ b1.idx < b2.idx)
                       => ~Contains(buckets, lists,
                                    GetLengthPrefixedSlice(writers[w1].key))

\* C14 witness: both writers returned from Insert after the race, and
\* Contains then answered false for the record of the one that published
\* first
C14_Witness ==
    /\ Raced("w1", "w2")
    /\ writers["w1"].pc = "done"
    /\ writers["w2"].pc = "done"
    /\ writers["w1"].bucket.idx < writers["w2"].bucket.idx
    /\ out.op = "Contains"
    /\ out.key = GetLengthPrefixedSlice(writers["w1"].key)
    /\ ~out.ret

----------------------------------------------------------------------------
(* One lookup through GetContext with every operation of the resolver *)

\* MarkKeyMayExist that leaves a settled state alone
MarkKeyMayExistUnlessSettled(c) ==
    IF c.state_ \in {"kNotFound", "kMerge"}
    THEN [c EXCEPT !.state_ = "kFound",
                   !.value_found_ = IF c.has_value_found THEN FALSE ELSE @]
    ELSE c

\* GetContext::MarkKeyMayExist, lines 77-82
MarkKeyMayExist(c) ==
    [c EXCEPT !.state_ = "kFound",
              !.value_found_ = IF c.has_value_found THEN FALSE ELSE @]

\* the setter of min_seq_type_ (table/get_context.h)
SetMinSequenceAndType(c, min_seq_type) ==
    [c EXCEPT !.min_seq_type_ = min_seq_type]

\* the thresholds a map sst sets: everything older than the first, or than
\* the second, record of the stream is masked
MinSeqTypes ==
    {PackSequenceAndType(StreamSeq(n), "kTypeDeletion") : n \in 1..2}

\* the GetContexts of these lookups: with and without *value_found,
\* *lazy_val, *seq, a covering tombstone and a ReadCallback, and two in
\* trivial mode
SessionConfigs ==
    {GetContext(op, "kNotFound", Target, lv, vf, TRUE, ts, sq, cb, FALSE) :
         op \in {SumOperator, FailingOperator, EagerOperator},
         lv \in BOOLEAN, vf \in BOOLEAN, ts \in {NoPtr, 2 * MaxStream - 2},
         sq \in BOOLEAN, cb \in CallbackSeqs}
    \cup {GetContext(SumOperator, "kNotFound", Target, lv, FALSE, TRUE, NoPtr,
                     FALSE, NoPtr, TRUE) : lv \in BOOLEAN}

InitSession ==
    /\ buckets = [i \in Slots |-> 0]
    /\ lists = [i \in Slots |-> <<>>]
    /\ inserted = {}
    /\ it = NoIter
    /\ out = NoOut
    /\ pc = "scan"
    /\ made \in SessionConfigs
    /\ get_context = made
    /\ row_cache_context = RowCacheContext
    /\ row_cache = NoEntry
    /\ fed = <<>>
    /\ replay = NULL
    /\ writers = NoWriters

\* get_context.SetMinSequenceAndType(min_seq_type) before the first record
SetMinSequenceAndTypeOp(min_seq_type) ==
    /\ pc = "scan"
    /\ fed = <<>>
    /\ get_context.min_seq_type_ = 0
    /\ get_context' = SetMinSequenceAndType(get_context, min_seq_type)
    /\ UNCHANGED <<idxVars, writers, pc, made, row_cache_context, row_cache,
                   fed, replay>>

\* get_context.SaveValue(parsed_key, value, &matched) in whatever state the
\* context is; the context and the log sink before and after are kept
SaveValueAnyOp(record) ==
    /\ pc = "scan"
    /\ ~Aborted
    /\ Len(fed) < MaxStream
    /\ LET r == SaveValue(get_context, row_cache_context, record.key,
                          record.value)
       IN  /\ get_context' = r.c
           /\ row_cache_context' = r.row
           /\ fed' = Append(fed, [key |-> record.key, value |-> record.value,
                                  before |-> get_context.state_,
                                  after |-> r.c.state_,
                                  min_seq_type |-> get_context.min_seq_type_,
                                  ret |-> r.ret, matched |-> r.matched,
                                  abort |-> r.abort,
                                  c |-> get_context, row |-> row_cache_context,
                                  c1 |-> r.c, row1 |-> r.row])
    /\ UNCHANGED <<idxVars, writers, pc, made, row_cache, replay>>

\* get_context.MarkKeyMayExist(): the source that comes next cannot be read
\* without I/O, and the lookup ends here
MarkKeyMayExistOp ==
    /\ pc = "scan"
    /\ ~Aborted
    /\ get_context' = MarkKeyMayExist(get_context)
    /\ pc' = "marked"
    /\ replay' = [c |-> get_context]
    /\ UNCHANGED <<idxVars, writers, made, row_cache_context, row_cache, fed>>

\* the records of stream, one after the other, through SaveValue: the
\* context left, what each call returned, and whether an assert failed
RECURSIVE Feed(_, _, _)
Feed(c, row, stream) ==
    IF Len(stream) = 0
    THEN [c |-> c, rets |-> <<>>, abort |-> FALSE]
    ELSE LET r == SaveValue(c, row, Head(stream).key, Head(stream).value)
         IN  IF r.abort
             THEN [c |-> r.c, rets |-> <<r.ret>>, abort |-> TRUE]
             ELSE LET rest == Feed(r.c, r.row, Tail(stream))
                  IN  [rest EXCEPT !.rets = <<r.ret>> \o @]

\* the records that were handed to SaveValue, in order
Stream == [j \in 1..Len(fed) |-> [key |-> fed[j].key, value |-> fed[j].value]]

\* a second GetContext, constructed with the arguments of the first and
\* given its threshold but no replay log, is fed the same records
SecondLookupOp ==
    /\ pc = "scan"
    /\ fed # <<>>
    /\ replay' = Feed(SetMinSequenceAndType(made, get_context.min_seq_type_),
                      RowCacheContext, Stream)
    /\ pc' = "again"
    /\ UNCHANGED <<idxVars, writers, made, get_context, row_cache_context,
                   row_cache, fed>>

NextSession ==
    \/ SetReplayLogOn
    \/ \E m \in MinSeqTypes : SetMinSequenceAndTypeOp(m)
    \/ \E record \in StreamRecords(Len(fed) + 1) : SaveValueAnyOp(record)
    \/ MarkKeyMayExistOp
    \/ SecondLookupOp

SpecSession == InitSession /\ [][NextSession]_vars

\* the moves of state_ that go forward
Forward(from, to) ==
    \/ from = to
    \/ from = "kNotFound"
    \/ from = "kMerge" /\ to \in {"kFound", "kCorrupt"}

\* C15 as stated: no operation of the resolver moves the state backwards or
\* out of kCorrupt, kFound or kDeleted
C15_AsStated ==
    [][Forward(get_context.state_, get_context'.state_)]_vars

\* C15: every step of a lookup moves state_ forward (kNotFound to any
\* state, kMerge to kFound or kCorrupt, nothing out of kCorrupt, kFound or
\* kDeleted), except MarkKeyMayExist, which makes it kFound whatever it was
C15_ForwardExceptMarkKeyMayExist ==
    [][\/ Forward(get_context.state_, get_context'.state_)
       \/ MarkKeyMayExistOp /\ get_context'.state_ = "kFound"]_vars

\* C15 witness: a lookup found kCorrupt by a failed merge, and
\* MarkKeyMayExist made it kFound
C15_Witness ==
    /\ pc = "marked"
    /\ replay.c.state_ = "kCorrupt"
    /\ get_context.state_ = "kFound"

\* C15 witness: SaveValue was called in kCorrupt with a record it does not
\* take, returned, and the state stayed
C15_WitnessSettled ==
    \E j \in 1..Len(fed) :
        /\ fed[j].before = "kCorrupt"
        /\ ~fed[j].abort
        /\ fed[j].after = "kCorrupt"


\* C16: after MarkKeyMayExist the state is kFound whatever it was before,
\* *value_found is false when a flag was given, and *lazy_val, the operand
\* list of the merge context and *seq are what they were before the call
C16_MarkKeyMayExistSetsFoundOnly ==
    pc = "marked" =>
        /\ get_context.state_ = "kFound"
        /\ get_context.has_value_found => ~get_context.value_found_
        /\ get_context.lazy_val_ = replay.c.lazy_val_
        /\ get_context.merge_context_ = replay.c.merge_context_
        /\ get_context.seq_ = replay.c.seq_
        /\ get_context = [replay.c EXCEPT !.state_ = "kFound",
                                          !.value_found_ = get_context.value_found_]

\* C16 witness: MarkKeyMayExist was called with a flag given, after a
\* Deletion had settled kDeleted and set *seq
C16_Witness ==
    /\ pc = "marked"
    /\ replay.c.state_ = "kDeleted"
    /\ replay.c.has_value_found
    /\ replay.c.value_found_
    /\ replay.c.seq_ \notin {NoPtr, kMaxSequenceNumber}
    /\ ~get_context.value_found_

\* C16 witness: MarkKeyMayExist was called with no flag given, in kMerge
\* with operands collected
C16_WitnessNoFlag ==
    /\ pc = "marked"
    /\ replay.c.state_ = "kMerge"
    /\ ~replay.c.has_value_found
    /\ replay.c.merge_context_ # <<>>
    /\ get_context.state_ = "kFound"


C17_WitnessCovered ==
    /\ pc = "again"
    /\ get_context.replay_log_callback_
    /\ row_cache_context.has_buffer
    /\ \E j \in 1..Len(fed) : /\ fed[j].key.type = "kTypeValue"
                               /\ fed[j].before = "kNotFound"
                               /\ fed[j].after = "kDeleted"
    /\ replay.c.state_ = "kDeleted"


----------------------------------------------------------------------------
(* Properties of the row cache *)

\* C18: AddToCache calls Cache::Insert if and only if the recording status
\* is ok and the log holds at least one pair; the entry is the log, charged
\* the size of the cache key plus the size of the log plus
\* sizeof(std::string); the Status returned is the recording status, also
\* when Cache::Insert failed and the cache kept what it had
C18_AddToCacheIffRecorded ==
    out.op = "AddToCache" =>
        /\ out.attempted <=> (out.row.status_ok /\ Len(out.row.buffer) > 0)
        /\ out.status_ok = out.row.status_ok
        /\ (out.attempted /\ out.insert_ok) =>
               /\ ~row_cache.null
               /\ row_cache.log = out.row.buffer
               /\ row_cache.charge = Len(out.cache_key) + Len(out.row.buffer)
                                         + kSizeofString
        /\ ~(out.attempted /\ out.insert_ok) => row_cache = out.cache

\* C18 witness: the recording was ok with pairs in the log, Cache::Insert
\* failed, and AddToCache returned ok with nothing in the cache
C18_Witness ==
    /\ out.op = "AddToCache"
    /\ out.attempted
    /\ ~out.insert_ok
    /\ out.status_ok
    /\ Len(out.row.buffer) > 2
    /\ row_cache = NoEntry

\* C18 witness: records were logged and then one that cannot be decoded:
\* nothing is inserted and the failure is returned
C18_WitnessFailed ==
    /\ out.op = "AddToCache"
    /\ ~out.attempted
    /\ ~out.status_ok
    /\ out.row.has_buffer
    /\ row_cache = NoEntry

\* C18 witness: no record was logged, the status is ok, nothing is inserted
C18_WitnessNoPairs ==
    /\ out.op = "AddToCache"
    /\ ~out.attempted
    /\ out.status_ok
    /\ fed # <<>>

\* C18 witness: the log went into the cache with its charge
C18_WitnessInserted ==
    /\ out.op = "AddToCache"
    /\ out.attempted
    /\ out.insert_ok
    /\ Len(out.cache_key) = 4
    /\ row_cache.charge > kSizeofString + 4


----------------------------------------------------------------------------
(* Properties of a lookup: records that are skipped *)

\* the j-th record is below the threshold the context had
Masked(j) ==
    /\ fed[j].key.user_key = Target
    /\ PackSequenceAndType(fed[j].key.sequence, fed[j].key.type)
           < fed[j].min_seq_type

\* the j-th record is of the target key, not masked, and of a sequence the
\* ReadCallback does not accept
Invisible(j) ==
    /\ fed[j].key.user_key = Target
    /\ ~Masked(j)
    /\ made.callback_ # NoPtr
    /\ fed[j].key.sequence > made.callback_

\* the records handed to SaveValue, the invisible ones left out
RECURSIVE VisibleFrom(_)
VisibleFrom(j) ==
    IF j > Len(fed) THEN <<>>
    ELSE IF Invisible(j) THEN VisibleFrom(j + 1)
    ELSE <<Stream[j]>> \o VisibleFrom(j + 1)

\* the context the lookup began with: constructed, then given its threshold
\* and its replay log
Began ==
    [made EXCEPT !.min_seq_type_ = get_context.min_seq_type_,
                 !.replay_log_callback_ = get_context.replay_log_callback_]

\* C19: SaveValue with a record of the target key that the ReadCallback
\* rejects (and the threshold does not mask) returns true and leaves the
\* context (state, operands, *lazy_val, *seq) and the replay log as they
\* were; the lookup ends as the same records without the rejected ones
\* would have ended it
C19_InvisibleRecordChangesNothing ==
    /\ \A j \in 1..Len(fed) :
           Invisible(j) => /\ fed[j].ret
                           /\ ~fed[j].abort
                           /\ fed[j].c1 = fed[j].c
                           /\ fed[j].row1 = fed[j].row
    /\ (pc = "scan" /\ ~Aborted) =>
           LET r == Feed(Began, RowCacheContext, VisibleFrom(1))
           IN  /\ ~r.abort
               /\ r.c = get_context

\* C19 witness: with a replay log attached and *seq asked for, the newest
\* record was rejected by the ReadCallback, and the older Value after it was
\* found, its sequence recorded and itself logged
C19_Witness ==
    /\ pc = "scan"
    /\ Len(fed) >= 2
    /\ Invisible(1)
    /\ fed[1].key.type = "kTypeDeletion"
    /\ fed[1].c.replay_log_callback_
    /\ fed[2].key.type = "kTypeValue"
    /\ fed[2].key.user_key = Target
    /\ get_context.state_ = "kFound"
    /\ get_context.seq_ = fed[2].key.sequence
    /\ get_context.lazy_val_ = fed[2].value
    /\ row_cache_context.has_buffer


\* C20 as stated: a masked record changes nothing and SaveValue answers it
\* as it answers a record the callback rejects, with true, so that the scan
\* goes on
C20_AsStated ==
    \A j \in 1..Len(fed) :
        Masked(j) => /\ fed[j].c1 = fed[j].c
                     /\ fed[j].row1 = fed[j].row
                     /\ fed[j].ret

\* C20: SaveValue with a record of the target key whose packed (sequence,
\* type) is below min_seq_type_ leaves the context (state, operands,
\* *lazy_val, *seq) and the replay log as they were, does not set *matched,
\* and returns false, the answer that ends the scan of the source
C20_MaskedRecordStopsTheScan ==
    \A j \in 1..Len(fed) :
        Masked(j) => /\ fed[j].c1 = fed[j].c
                     /\ fed[j].row1 = fed[j].row
                     /\ ~fed[j].abort
                     /\ ~fed[j].matched
                     /\ ~fed[j].ret

\* C20 witness: a Merge operand was collected and logged, the next record
\* of the target key was a masked Value, and SaveValue returned false with
\* the state still kMerge
C20_Witness ==
    /\ Len(fed) >= 2
    /\ fed[1].after = "kMerge"
    /\ fed[1].ret
    /\ fed[1].row1.has_buffer
    /\ Masked(2)
    /\ fed[2].key.type = "kTypeValue"
    /\ ~fed[2].ret
    /\ fed[2].c1.state_ = "kMerge"
    /\ fed[2].c1.merge_context_ # <<>>


----------------------------------------------------------------------------
(* Properties of a lookup: what a record is processed as *)

\* the j-th record got past the tests of user key, threshold and callback
Consumed(j) ==
    /\ fed[j].key.user_key = Target
    /\ ~Masked(j)
    /\ ~Invisible(j)

\* what the j-th call left and returned
Outcome(j) ==
    [c |-> fed[j].c1, row |-> fed[j].row1, ret |-> fed[j].ret,
     matched |-> fed[j].matched, abort |-> fed[j].abort]

\* what SaveValue leaves and returns for the j-th record when it is handed
\* over as a RangeDeletion of the same sequence with an empty value
AsRangeDeletion(j) ==
    SaveValue(fed[j].c, fed[j].row,
              [fed[j].key EXCEPT !.type = "kTypeRangeDeletion"], EmptySlice)

\* what SaveValue leaves and returns for the j-th record when there is no
\* covering tombstone sequence
AsItself(j) ==
    LET r == SaveValue([fed[j].c EXCEPT !.max_covering_tombstone_seq_ = NoPtr],
                       fed[j].row, fed[j].key, fed[j].value)
    IN  [r EXCEPT !.c.max_covering_tombstone_seq_ =
                      fed[j].c.max_covering_tombstone_seq_]

\* the test of lines 178-181 on the j-th record
UnderTombstone(j) ==
    /\ fed[j].key.type \in {"kTypeValue", "kTypeMerge",
                            "kTypeValueIndex", "kTypeMergeIndex"}
    /\ fed[j].c.max_covering_tombstone_seq_ # NoPtr
    /\ fed[j].c.max_covering_tombstone_seq_ > fed[j].key.sequence

\* C21 as stated: a record that is not the first one consumed is processed
\* as itself, whatever the covering tombstone sequence
C21_AsStated ==
    \A j \in 1..Len(fed) :
        (Consumed(j) /\ \E i \in 1..(j - 1) : Consumed(i))
            => Outcome(j) = AsItself(j)

\* C21: a consumed record of type Value, Merge, ValueIndex or MergeIndex is
\* processed as a RangeDeletion with an empty value exactly when a covering
\* tombstone sequence is set and greater than the record's sequence, be it
\* the first record consumed or a later one; every other consumed record is
\* processed as itself
C21_ReclassifiedWhenCovered ==
    \A j \in 1..Len(fed) :
        Consumed(j) =>
            IF UnderTombstone(j)
            THEN Outcome(j) = AsRangeDeletion(j)
            ELSE Outcome(j) = AsItself(j)

\* C21 witness: a Merge operand newer than the tombstone was collected, the
\* Value after it is older than the tombstone, and the merge was made
\* without that Value as its base
C21_Witness ==
    /\ Len(fed) >= 2
    /\ Consumed(1)
    /\ fed[1].key.type = "kTypeMerge"
    /\ ~UnderTombstone(1)
    /\ fed[1].after = "kMerge"
    /\ Consumed(2)
    /\ fed[2].key.type = "kTypeValue"
    /\ UnderTombstone(2)
    /\ fed[2].c.has_lazy_val
    /\ fed[2].after = "kFound"
    /\ Outcome(2) # AsItself(2)

\* C21 witness: the first record consumed is a Value under the tombstone
\* and the lookup ends in kDeleted; the log holds it as a RangeDeletion
C21_WitnessFirst ==
    \E j \in 1..Len(fed) :
        /\ Consumed(j)
        /\ \A i \in 1..(j - 1) : ~Consumed(i)
        /\ fed[j].key.type = "kTypeValue"
        /\ UnderTombstone(j)
        /\ fed[j].after = "kDeleted"
        /\ fed[j].row1.buffer = <<TypeCode("kTypeRangeDeletion"), 0>>

\* the j-th record is consumed and dispatched as a Merge, in a state the
\* switch accepts
MergeDispatched(j) ==
    /\ Consumed(j)
    /\ fed[j].key.type \in {"kTypeMerge", "kTypeMergeIndex"}
    /\ ~UnderTombstone(j)
    /\ fed[j].before \in {"kNotFound", "kMerge"}

\* the operand the j-th record brings: its value, translated when indirect
OperandOf(j) ==
    IF fed[j].key.type = "kTypeMergeIndex"
    THEN TransToCombined(Target,
             PackSequenceAndType(fed[j].key.sequence, fed[j].key.type),
             fed[j].value)
    ELSE fed[j].value

\* the operands of the records dispatched as Merge among the first n, in the
\* order presented
RECURSIVE OperandsUpTo(_)
OperandsUpTo(n) ==
    IF n = 0 THEN <<>>
    ELSE IF MergeDispatched(n) /\ ~fed[n].abort
    THEN Append(OperandsUpTo(n - 1), OperandOf(n))
    ELSE OperandsUpTo(n - 1)

\* the j-th call appended its operand and answered as ShouldMerge says
MergeStep(j) ==
    LET c == fed[j].c
        c1 == fed[j].c1
        ops == Append(c.merge_context_, OperandOf(j))
    IN  /\ ~fed[j].abort
        /\ c1.merge_context_ = ops
        /\ IF ShouldMerge(c.merge_operator_, ops)
           THEN /\ ~fed[j].ret
                /\ IF ~c.has_lazy_val THEN c1.state_ = "kFound"
                   ELSE IF c.merge_operator_.full_merge_ok
                   THEN /\ c1.state_ = "kFound"
                        /\ c1.lazy_val_ = FullMerge(c.merge_operator_, FALSE,
                                              EmptySlice, Reverse(ops))
                   ELSE c1.state_ = "kCorrupt"
           ELSE /\ fed[j].ret
                /\ c1.state_ = "kMerge"

C22_WitnessEager ==
    \E j \in 1..Len(fed) :
        /\ MergeDispatched(j)
        /\ fed[j].before = "kMerge"
        /\ ~fed[j].ret
        /\ fed[j].c.has_lazy_val
        /\ fed[j].after = "kFound"
        /\ fed[j].c1.lazy_val_ # EmptySlice

\* C22 witness: a Merge record in trivial mode
C22_WitnessTrivial ==
    \E j \in 1..Len(fed) :
        /\ MergeDispatched(j)
        /\ fed[j].c.trivial_
        /\ fed[j].abort


----------------------------------------------------------------------------
(* Properties of the replay log as it is written *)

\* the type and the value the callback of lines 186-188 is called with for
\* the j-th record: the record's own, or RangeDeletion and nothing when a
\* tombstone covers it
LoggedType(j) ==
    IF UnderTombstone(j) THEN "kTypeRangeDeletion" ELSE fed[j].key.type

LoggedValue(j) == IF UnderTombstone(j) THEN EmptySlice ELSE fed[j].value

\* the direct form of the j-th record: Value for ValueIndex, Merge for
\* MergeIndex, and the value the index value stands for
DirectType(j) ==
    IF LoggedType(j) = "kTypeValueIndex" THEN "kTypeValue"
    ELSE IF LoggedType(j) = "kTypeMergeIndex" THEN "kTypeMerge"
    ELSE LoggedType(j)

DirectValue(j) ==
    IF LoggedType(j) \in {"kTypeValueIndex", "kTypeMergeIndex"}
    THEN OperandOf(j)
    ELSE LoggedValue(j)

\* the j-th call appended the pair (type, value) to the log
Logged(j, type, value) ==
    /\ fed[j].row1.has_buffer
    /\ fed[j].row1.buffer =
           fed[j].row.buffer \o <<TypeCode(type), Len(value)>> \o value

\* the j-th record was consumed while a replay log was attached
ConsumedLogging(j) == Consumed(j) /\ fed[j].c.replay_log_callback_

\* C23 as stated: every record consumed while a log is attached appends one
\* pair, of its effective type and value in direct form
C23_AsStated ==
    \A j \in 1..Len(fed) :
        ConsumedLogging(j) => Logged(j, DirectType(j), DirectValue(j))

\* C23: a record consumed while a replay log is attached, whether or not
\* the switch then changes the state or fails an assert, appends one pair
\* when the recording status is ok and the value can be decoded, and
\* otherwise appends nothing and leaves the status failed; the pair holds
\* the type after reclassification and the value as handed in, an indirect
\* record under its indirect type with its index value, not translated; a
\* record that is not consumed, or consumed with no log attached, leaves
\* the log alone; the log is the pairs in the order of the records
C23_ConsumedRecordIsLoggedAsHandedIn ==
    /\ \A j \in 1..Len(fed) :
           IF ConsumedLogging(j)
           THEN IF fed[j].row.status_ok /\ InplaceDecodeOk(LoggedValue(j))
                THEN /\ Logged(j, LoggedType(j), LoggedValue(j))
                     /\ fed[j].row1.status_ok
                ELSE /\ fed[j].row1.buffer = fed[j].row.buffer
                     /\ fed[j].row1.has_buffer = fed[j].row.has_buffer
                     /\ ~fed[j].row1.status_ok
           ELSE fed[j].row1 = fed[j].row
    /\ \A j \in 1..(Len(fed) - 1) : fed[j + 1].row = fed[j].row1
    /\ fed # <<>> => /\ fed[1].row = RowCacheContext
                     /\ row_cache_context = fed[Len(fed)].row1

\* C23 witness: a ValueIndex record was logged with type ValueIndex and its
\* index value, which is not the value the lookup found
C23_Witness ==
    \E j \in 1..Len(fed) :
        /\ ConsumedLogging(j)
        /\ fed[j].key.type = "kTypeValueIndex"
        /\ Logged(j, "kTypeValueIndex", fed[j].value)
        /\ fed[j].after = "kFound"
        /\ fed[j].c.has_lazy_val
        /\ fed[j].c1.lazy_val_ # fed[j].value

\* C23 witness: a Merge record that left the state kMerge was logged, and a
\* second pair was appended behind it
C23_WitnessOrder ==
    /\ Len(fed) >= 2
    /\ ConsumedLogging(1)
    /\ fed[1].before = "kNotFound"
    /\ fed[1].after = "kMerge"
    /\ ConsumedLogging(2)
    /\ fed[2].after = "kMerge"
    /\ row_cache_context.buffer =
           <<TypeCode(LoggedType(1)), Len(LoggedValue(1))>> \o LoggedValue(1)
               \o <<TypeCode(LoggedType(2)), Len(LoggedValue(2))>>
               \o LoggedValue(2)

\* C23 witness: a value that cannot be decoded was consumed after a pair had
\* been logged: nothing was appended for it nor for the record after it
C23_WitnessUndecodable ==
    /\ Len(fed) = 3
    /\ ConsumedLogging(2)
    /\ fed[2].row.has_buffer
    /\ ~InplaceDecodeOk(fed[2].value)
    /\ ~UnderTombstone(2)
    /\ ConsumedLogging(3)
    /\ fed[3].row1.buffer = fed[1].row1.buffer

\* C23 witness: a record consumed in a settled state was logged before the
\* assert of the switch failed
C23_WitnessAssert ==
    \E j \in 1..Len(fed) :
        /\ ConsumedLogging(j)
        /\ fed[j].before = "kDeleted"
        /\ fed[j].abort
        /\ Logged(j, LoggedType(j), LoggedValue(j))


\* the test of lines 290-293 apart from the two callbacks: the state is
\* kNotFound or kMerge and a covering tombstone sequence is given and not 0
TombstoneToLog ==
    /\ get_context.state_ \in {"kNotFound", "kMerge"}
    /\ get_context.max_covering_tombstone_seq_ # NoPtr
    /\ get_context.max_covering_tombstone_seq_ # 0

\* the step appended the pair (RangeDeletion, empty value) to the log
AppendedTombstone ==
    /\ row_cache_context'.has_buffer
    /\ row_cache_context'.buffer =
           row_cache_context.buffer \o <<TypeCode("kTypeRangeDeletion"), 0>>
    /\ row_cache_context'.status_ok = row_cache_context.status_ok

\* C24 as stated: SetReplayLog changes nothing of the context but the
\* callback; detaching appends the RangeDeletion pair exactly when the state
\* is kNotFound or kMerge under a non-zero tombstone sequence, and nothing
\* else is ever appended
C24_AsStated ==
    [][(SetReplayLogOn \/ SetReplayLogOff) =>
           /\ get_context' = [get_context EXCEPT !.replay_log_callback_ =
                                                     ~get_context.replay_log_callback_]
           /\ IF SetReplayLogOff /\ TombstoneToLog
              THEN AppendedTombstone
              ELSE row_cache_context' = row_cache_context]_vars

\* C24: SetReplayLog changes nothing of the context but the callback;
\* detaching appends the pair (RangeDeletion, empty value) exactly when the
\* state is kNotFound or kMerge, a covering tombstone sequence is given and
\* not 0, and the recording status is ok; in every other case attaching or
\* detaching leaves the log as it was
C24_DetachLogsTombstoneWhileOk ==
    [][(SetReplayLogOn \/ SetReplayLogOff) =>
           /\ get_context' = [get_context EXCEPT !.replay_log_callback_ =
                                                     ~get_context.replay_log_callback_]
           /\ IF SetReplayLogOff /\ TombstoneToLog
                 /\ row_cache_context.status_ok
              THEN AppendedTombstone
              ELSE row_cache_context' = row_cache_context]_vars

\* C24 witness: the log was detached in kMerge under a tombstone sequence
\* with the pair of an operand recorded, and holds two pairs
C24_Witness ==
    /\ pc = "detached"
    /\ TombstoneToLog
    /\ get_context.state_ = "kMerge"
    /\ get_context.merge_context_ # <<>>
    /\ row_cache_context.status_ok
    /\ Len(row_cache_context.buffer) >= 5
    /\ SubSeq(row_cache_context.buffer, Len(row_cache_context.buffer) - 1,
              Len(row_cache_context.buffer))
           = <<TypeCode("kTypeRangeDeletion"), 0>>

\* C24 witness: the log was detached in kMerge under a tombstone sequence
\* after an operand that could not be decoded: no pair was added
C24_WitnessFailed ==
    /\ pc = "detached"
    /\ TombstoneToLog
    /\ get_context.state_ = "kMerge"
    /\ ~row_cache_context.status_ok
    /\ ~row_cache_context.has_buffer

\* C24 witness: the log was detached in kDeleted under a tombstone sequence
\* and holds the one pair of the scan
C24_WitnessSettled ==
    /\ pc = "detached"
    /\ get_context.state_ = "kDeleted"
    /\ get_context.max_covering_tombstone_seq_ \notin {NoPtr, 0}
    /\ Len(fed) = 1
    /\ row_cache_context.buffer = <<TypeCode("kTypeRangeDeletion"), 0>>


----------------------------------------------------------------------------
(* Properties of a lookup: the asserts of SaveValue *)

\* every record handed to SaveValue is of the target user key
StreamOfTarget == \A j \in 1..Len(fed) : fed[j].key.user_key = Target

\* the context was constructed with what its mode needs: a merge context, a
\* merge operator, and in trivial mode a *lazy_val
WellFormed ==
    /\ made.has_merge_context
    /\ ~made.merge_operator_.null
    /\ made.trivial_ => made.has_lazy_val

\* C25: no assert of SaveValue fails in a lookup that starts in kNotFound
\* and is handed records of the target key, newest first, until SaveValue
\* returns false, in normal mode and in trivial mode, nor when
\* GetFromRowCache replays the log of such a lookup
C25_AsStated ==
    (WellFormed /\ StreamOfTarget) =>
        /\ ~Aborted
        /\ pc = "replayed" => ~replay.abort

\* in normal mode no assert of SaveValue fails in such a lookup, nor when
\* its log is replayed into a context that does not ask for the sequence
C25_NormalModeAssertsHold ==
    (WellFormed /\ StreamOfTarget /\ ~made.trivial_) =>
        /\ ~Aborted
        /\ (pc = "replayed" /\ made.seq_ = NoPtr) => ~replay.abort

\* in trivial mode the asserts hold as long as no Merge record is consumed
C25_TrivialModeAssertsHoldWithoutMerge ==
    (WellFormed /\ StreamOfTarget /\ made.trivial_
        /\ \A j \in 1..Len(fed) :
               Processed(j) => ProcessedAs(j) \notin {"kTypeMerge",
                                                      "kTypeMergeIndex"})
        => ~Aborted

\* C25 witness: a context in trivial mode with *lazy_val and a merge
\* context, in kNotFound, was handed one Merge record of the target key,
\* and the assert that follows state_ = kMerge failed
C25_Witness ==
    /\ WellFormed
    /\ made.trivial_
    /\ Len(fed) = 1
    /\ fed[1].key.user_key = Target
    /\ fed[1].key.type = "kTypeMerge"
    /\ fed[1].before = "kNotFound"
    /\ fed[1].abort
    /\ get_context.state_ = "kMerge"

====
